---- MODULE Spec2Model ----
(***************************************************************************)
(* Single-table entity / repository data-access layer of the CLKK backend. *)
(*                                                                         *)
(* Strings are TLA+ strings; Len, \o and SubSeq act on them character by   *)
(* character.  An object (entity, item, request) is a function from        *)
(* property names to values; a property that is undefined is not in the    *)
(* DOMAIN.  Timestamps (ISO-8601 strings in the source, ordered            *)
(* lexicographically) are the natural numbers read from the clock.         *)
(***************************************************************************)
EXTENDS Integers, Sequences, FiniteSets, TLC

VARIABLES
  table,    \* the DynamoDB table: partition-key string -> stored item
  clock,    \* the wall clock read by new Date().toISOString()
  pc,       \* pc[p]: "idle", or "sent" while p awaits the engine's reply
  ent,      \* ent[p]: the in-memory entity object caller p holds
  req,      \* req[p]: the command p has sent to the engine
  res,      \* res[p]: how p's last operation ended
  hist,     \* the completed operations, most recent first (observation only)
  nops,     \* number of operations started (exploration bound)
  idx,      \* the index queried, the partition value and the filter
  qry,      \* the QueryCommand the engine has been sent
  pager,    \* a client following continuation tokens page by page
  allp,     \* a queryAllPages call
  cnt,      \* a countByIndex call
  tok,      \* a queryByIndex call with a token the client supplies
  call,     \* the last repository call: its argument, the engine requests it
            \* issued, what the engine reported and what the caller got back
  resolverCache,  \* the result cache of the cached resolver handlers
  evt       \* the event or arguments each running handler was invoked with

storeVars == <<table, clock, pc, ent, req, res, hist, nops>>
queryVars == <<idx, qry, pager, allp, cnt, tok, call, resolverCache, evt>>
vars == <<table, clock, pc, ent, req, res, hist, nops, idx, qry, pager, allp, cnt, tok,
          call, resolverCache, evt>>

----------------------------------------------------------------------------
(* Bounds of the exploration.                                              *)

MaxClock == 1
MaxOps == 2
MaxIndex == 3

----------------------------------------------------------------------------
(* Objects.                                                                *)

NoItem == << >>

Obj1(k, v) == k :> v

\* Object.assign(target, source) / object spread {...target, ...source}
Assign(target, source) == source @@ target

Without(obj, keys) == [k \in (DOMAIN obj) \ keys |-> obj[k]]

Only(obj, keys) == [k \in (DOMAIN obj) \cap keys |-> obj[k]]

TimeFields == {"createdAt", "updatedAt"}

\* the attributes whose values are objects
ObjectFields == {"metadata"}

\* JavaScript truthiness of obj[k]: undefined and "" are falsy, an object
\* is truthy.
Truthy(obj, k) ==
  /\ k \in DOMAIN obj
  /\ (k \in TimeFields \cup ObjectFields \/ obj[k] # "")

----------------------------------------------------------------------------
(* String.prototype.toLowerCase on the ASCII letters.                      *)

UpperLetters == "ABCDEFGHIJKLMNOPQRSTUVWXYZ"
LowerLetters == "abcdefghijklmnopqrstuvwxyz"
Digits == "0123456789"

CharAt(s, i) == SubSeq(s, i, i)


IndexIn(c, s) == CHOOSE i \in 1..Len(s) : CharAt(s, i) = c

CharSet(s) == {CharAt(s, i) : i \in 1..Len(s)}

\* the lower-case letter of every upper-case letter
LowerMap ==
  [c \in CharSet(UpperLetters) |-> CharAt(LowerLetters, IndexIn(c, UpperLetters))]

LowerChar(c) == IF c \in DOMAIN LowerMap THEN LowerMap[c] ELSE c

RECURSIVE toLowerCase(_)
toLowerCase(s) ==
  IF Len(s) = 0 THEN ""
  ELSE LowerChar(CharAt(s, 1)) \o toLowerCase(SubSeq(s, 2, Len(s)))

----------------------------------------------------------------------------
(* Constants layer: key builders, condition and update expression builders *)

KEY_BUILDERS_user(userId) ==
  Obj1("PK", "USER#" \o userId) @@ Obj1("SK", "USER#" \o userId)

KEY_BUILDERS_userByClerkId(clerkId) == Obj1("ExternalIdKey", "CLERK#" \o clerkId)

\* faulty variant: the email goes into the key as given
KEY_BUILDERS_userByEmail_raw(email) == Obj1("EmailKey", "EMAIL#" \o email)

KEY_BUILDERS_userByEmail(email) == Obj1("EmailKey", "EMAIL#" \o toLowerCase(email))

KEY_BUILDERS_userByClkkTag(clkkTag) == Obj1("ClkkTagKey", "TAG#" \o toLowerCase(clkkTag))

KYC_STATUS == {"NOT_STARTED", "PENDING", "IN_REVIEW", "APPROVED", "REJECTED", "EXPIRED"}

\* faulty variant: the builder of the opposite condition is used
CONDITION_BUILDERS_attributeNotExists_swapped(attribute) ==
  [ConditionExpression |-> "attribute_exists(#attr)",
   ExpressionAttributeNames |-> Obj1("#attr", attribute)]

CONDITION_BUILDERS_attributeNotExists(attribute) ==
  [ConditionExpression |-> "attribute_not_exists(#attr)",
   ExpressionAttributeNames |-> Obj1("#attr", attribute)]

CONDITION_BUILDERS_attributeExists(attribute) ==
  [ConditionExpression |-> "attribute_exists(#attr)",
   ExpressionAttributeNames |-> Obj1("#attr", attribute)]

NoCondition == [ConditionExpression |-> "", ExpressionAttributeNames |-> << >>]

\* updates: the entries of the updates object in Object.entries order, each
\* [k |-> name, def |-> value !== undefined, v |-> value].
RECURSIVE SetClauses(_, _)
SetClauses(updates, index) ==
  IF index >= Len(updates) THEN << >>
  ELSE LET u == updates[index + 1]
           rest == SetClauses(updates, index + 1)
       IN IF u.def
          THEN << [name |-> "#attr" \o ToString(index),
                   value |-> ":val" \o ToString(index),
                   k |-> u.k, v |-> u.v] >> \o rest
          ELSE rest

\* faulty variant: the updatedAt clause is not appended
UPDATE_BUILDERS_set_unstamped(updates, now) ==
  LET cl == SetClauses(updates, 0)
  IN [UpdateExpression |-> [i \in 1..Len(cl) |-> <<cl[i].name, cl[i].value>>],
      ExpressionAttributeNames |->
        [n \in {cl[i].name : i \in 1..Len(cl)} |->
           cl[CHOOSE i \in 1..Len(cl) : cl[i].name = n].k],
      ExpressionAttributeValues |->
        [n \in {cl[i].value : i \in 1..Len(cl)} |->
           cl[CHOOSE i \in 1..Len(cl) : cl[i].value = n].v]]

UPDATE_BUILDERS_set(updates, now) ==
  LET cl == SetClauses(updates, 0) \o
            << [name |-> "#attr" \o ToString(Len(updates)),
                value |-> ":val" \o ToString(Len(updates)),
                k |-> "updatedAt", v |-> now] >>
  IN [UpdateExpression |-> [i \in 1..Len(cl) |-> <<cl[i].name, cl[i].value>>],
      ExpressionAttributeNames |->
        [n \in {cl[i].name : i \in 1..Len(cl)} |->
           cl[CHOOSE i \in 1..Len(cl) :
                 cl[i].name = n /\ \A j \in (i+1)..Len(cl) : cl[j].name # n].k],
      ExpressionAttributeValues |->
        [n \in {cl[i].value : i \in 1..Len(cl)} |->
           cl[CHOOSE i \in 1..Len(cl) :
                 cl[i].value = n /\ \A j \in (i+1)..Len(cl) : cl[j].value # n].v]]

----------------------------------------------------------------------------
(* zod schemas used by User.validate.                                      *)

AllIn(s, charset) == \A i \in 1..Len(s) : CharAt(s, i) \in charset

Letters == CharSet(UpperLetters \o LowerLetters)
DigitChars == CharSet(Digits)
LocalChars == Letters \cup DigitChars \cup CharSet("_'+-.")
DomainChars == Letters \cup DigitChars \cup CharSet("-.")

\* the labels of a domain: the maximal runs between dots
DotPositions(s) == {i \in 1..Len(s) : CharAt(s, i) = "."}

\* z.string().email(): local@label(.label)*.tld, tld of two or more letters
IsEmail(s) ==
  \E at \in 1..Len(s) :
    /\ CharAt(s, at) = "@"
    /\ LET local == SubSeq(s, 1, at - 1)
           domain == SubSeq(s, at + 1, Len(s))
           dots == DotPositions(domain)
       IN /\ Len(local) >= 1
          /\ AllIn(local, LocalChars)
          /\ CharAt(local, 1) # "."
          /\ CharAt(local, Len(local)) # "."
          /\ \A i \in 1..(Len(local) - 1) :
                ~(CharAt(local, i) = "." /\ CharAt(local, i + 1) = ".")
          /\ AllIn(domain, DomainChars)
          /\ dots # {}
          /\ \A i \in dots : i > 1 /\ i < Len(domain) /\ (i + 1) \notin dots
                             /\ CharAt(domain, i + 1) # "-"
          /\ CharAt(domain, 1) # "-"
          /\ LET last == CHOOSE i \in dots : \A j \in dots : j <= i
             IN /\ Len(domain) - last >= 2
                /\ AllIn(SubSeq(domain, last + 1, Len(domain)), Letters)

\* /^\+?[1-9]\d{1,14}$/
IsPhoneNumber(s) ==
  LET d == IF Len(s) > 0 /\ CharAt(s, 1) = "+" THEN SubSeq(s, 2, Len(s)) ELSE s
  IN /\ Len(d) >= 2 /\ Len(d) <= 15
     /\ CharAt(d, 1) \in (DigitChars \ {"0"})
     /\ AllIn(d, DigitChars)

OptionalLen(e, k, lo, hi) == k \in DOMAIN e => (Len(e[k]) >= lo /\ Len(e[k]) <= hi)

----------------------------------------------------------------------------
(* User entity.                                                            *)

OptionalFields ==
  {"phoneNumber", "firstName", "lastName", "clkkTag", "kycDetails",
   "profileImageUrl", "dateOfBirth", "address", "metadata"}

FromItemFields ==
  {"id", "clerkId", "email", "kycStatus", "createdAt", "updatedAt"}
    \cup OptionalFields

\* new User(data); uuid is the value generateUserId() draws
User_new(data, uuid) ==
  LET a == data
      b == IF Truthy(a, "id") THEN a ELSE Assign(a, Obj1("id", "user_" \o uuid))
  IN IF Truthy(b, "kycStatus") THEN b
     ELSE Assign(b, Obj1("kycStatus", "NOT_STARTED"))

User_getPrimaryKey(e) == KEY_BUILDERS_user(e["id"])

User_toItem(e) ==
  LET item == Only(e, {"id", "clerkId", "email", "kycStatus"})
      opt == [k \in {f \in OptionalFields : Truthy(e, f)} |-> e[k]]
      gsi == KEY_BUILDERS_userByClerkId(e["clerkId"])
               @@ KEY_BUILDERS_userByEmail(e["email"])
      tag == IF Truthy(e, "clkkTag") THEN KEY_BUILDERS_userByClkkTag(e["clkkTag"])
             ELSE << >>
  IN tag @@ gsi @@ opt @@ item

\* faulty variant: createdAt and updatedAt are not read back
User_fromItem_unstamped(item) == Only(item, FromItemFields \ TimeFields)

User_fromItem(item) == Only(item, FromItemFields)

\* TRUE when schema.parse accepts, FALSE when validate() throws
User_validate(e) ==
  /\ "id" \in DOMAIN e /\ Len(e["id"]) >= 1
  /\ "clerkId" \in DOMAIN e /\ Len(e["clerkId"]) >= 1
  /\ "email" \in DOMAIN e /\ IsEmail(e["email"])
  /\ "phoneNumber" \in DOMAIN e => IsPhoneNumber(e["phoneNumber"])
  /\ OptionalLen(e, "firstName", 1, 50)
  /\ OptionalLen(e, "lastName", 1, 50)
  /\ OptionalLen(e, "clkkTag", 3, 20)
  /\ "kycStatus" \in DOMAIN e /\ e["kycStatus"] \in KYC_STATUS

----------------------------------------------------------------------------
(* The key-value engine (DynamoDB), one atomic step per command.  Each     *)
(* operator returns the new table, the error raised (or "") and the item   *)
(* attributes returned.                                                    *)

KeyOf(obj) == <<obj["PK"], obj["SK"]>>

Stored(tbl, key) == IF key \in DOMAIN tbl THEN tbl[key] ELSE NoItem

\* attribute_not_exists(#attr) against the item at the key of the write
ConditionHolds(tbl, key, cond) ==
  \/ cond.ConditionExpression = ""
  \/ /\ cond.ConditionExpression = "attribute_not_exists(#attr)"
     /\ cond.ExpressionAttributeNames["#attr"] \notin DOMAIN Stored(tbl, key)
  \/ /\ cond.ConditionExpression = "attribute_exists(#attr)"
     /\ cond.ExpressionAttributeNames["#attr"] \in DOMAIN Stored(tbl, key)

DynamoPut(tbl, item, cond) ==
  IF ConditionHolds(tbl, KeyOf(item), cond)
  THEN [table |-> (KeyOf(item) :> item) @@ tbl, error |-> "", Attributes |-> NoItem]
  ELSE [table |-> tbl, error |-> "ConditionalCheckFailedException",
        Attributes |-> NoItem]

\* faulty variant: the item is replaced by the key and the attributes set
DynamoUpdate_replacing(tbl, keyObj, expr) ==
  LET cl == expr.UpdateExpression
      path(i) == expr.ExpressionAttributeNames[cl[i][1]]
      val(i) == expr.ExpressionAttributeValues[cl[i][2]]
      paths == {path(i) : i \in 1..Len(cl)}
      sets == [a \in paths |-> val(CHOOSE i \in 1..Len(cl) : path(i) = a)]
      new == Assign(keyObj, sets)
  IN [table |-> (KeyOf(keyObj) :> new) @@ tbl, error |-> "", Attributes |-> new]

\* UpdateItem with a SET expression and ReturnValues ALL_NEW: an upsert
DynamoUpdate(tbl, keyObj, expr) ==
  LET cl == expr.UpdateExpression
      path(i) == expr.ExpressionAttributeNames[cl[i][1]]
      val(i) == expr.ExpressionAttributeValues[cl[i][2]]
      paths == {path(i) : i \in 1..Len(cl)}
      overlap == \E i, j \in 1..Len(cl) : i # j /\ path(i) = path(j)
      base == IF KeyOf(keyObj) \in DOMAIN tbl THEN tbl[KeyOf(keyObj)] ELSE keyObj
      sets == [a \in paths |-> val(CHOOSE i \in 1..Len(cl) : path(i) = a)]
      new == Assign(base, sets)
  IN IF overlap \/ paths \cap {"PK", "SK"} # {}
     THEN [table |-> tbl, error |-> "ValidationException", Attributes |-> NoItem]
     ELSE [table |-> (KeyOf(keyObj) :> new) @@ tbl, error |-> "", Attributes |-> new]

\* faulty variant: a delete of a missing row is refused
DynamoDelete_strict(tbl, keyObj) ==
  IF KeyOf(keyObj) \in DOMAIN tbl
  THEN [table |-> [k \in (DOMAIN tbl) \ {KeyOf(keyObj)} |-> tbl[k]],
        error |-> "", Attributes |-> NoItem]
  ELSE [table |-> tbl, error |-> "ConditionalCheckFailedException",
        Attributes |-> NoItem]

DynamoDelete(tbl, keyObj) ==
  [table |-> [k \in (DOMAIN tbl) \ {KeyOf(keyObj)} |-> tbl[k]],
   error |-> "", Attributes |-> NoItem]

DynamoGet(tbl, keyObj) ==
  [table |-> tbl, error |-> "", Attributes |-> Stored(tbl, KeyOf(keyObj))]

----------------------------------------------------------------------------
(* Callers and their inputs.                                               *)

Procs == {1, 2}

UserInputs ==
  { ("id" :> "u1") @@ ("clerkId" :> "c1") @@ ("email" :> "Ann@Ex.io"),
    ("id" :> "u1") @@ ("clerkId" :> "c2") @@ ("email" :> "bob@ex.io")
       @@ ("firstName" :> "Bob"),
    ("id" :> "u2") @@ ("clerkId" :> "c3") @@ ("email" :> "nope") }

UserIds == {d["id"] : d \in UserInputs}

Uuids == {"g1"}

UpdateInputs ==
  { << [k |-> "firstName", def |-> TRUE, v |-> "Al"] >>,
    << [k |-> "lastName", def |-> TRUE, v |-> "Lee"] >>,
    << [k |-> "kycStatus", def |-> TRUE, v |-> "BOGUS"],
       [k |-> "kycDetails", def |-> FALSE, v |-> ""] >> }

\* the entity lists handed to batchWrite
BatchInputs ==
  { << User_new(("id" :> "u1") @@ ("clerkId" :> "c1") @@ ("email" :> "Ann@Ex.io"),
                "g1") >>,
    << User_new(("id" :> "u2") @@ ("clerkId" :> "c4") @@ ("email" :> "cyd@ex.io"),
                "g1"),
       User_new(("id" :> "u1") @@ ("clerkId" :> "c2") @@ ("email" :> "bob@ex.io")
                  @@ ("firstName" :> "Bob"), "g1") >> }

\* the attribute names an updates object assigns (value !== undefined)
Named(updates) == {updates[i].k : i \in {j \in 1..Len(updates) : updates[j].def}}

Ok == "ok"
ValidationFailed == "Error: User validation failed"
AlreadyExists == "Error: already exists"

\* no repository call has been made
NoCall ==
  [op |-> "", input |-> << >>, requests |-> << >>, unprocessed |-> << >>,
   result |-> << >>, error |-> "", returned |-> FALSE]

NoKey == <<"", "">>
NoReq == [op |-> "", Item |-> NoItem, Key |-> NoItem, cond |-> NoCondition,
          expr |-> << >>, ent0 |-> NoItem, updates |-> << >>, now |-> 0,
          pending |-> << >>, chunks |-> << >>]

\* what is kept of the operation completed before the last one
Slim(rec) ==
  [op |-> rec.op, key |-> rec.key, outcome |-> rec.outcome, after |-> rec.after,
   existed |-> rec.before # NoItem,
   updates |-> rec.updates, now |-> rec.now]

\* the completed operation joins the observation history (the last two)
Observe(rec) ==
  hist' = <<rec>> \o (IF Len(hist) > 0 THEN <<Slim(hist[1])>> ELSE << >>)

\* before, after: the row at the operation's key; frame: every other row of
\* the table is the same after the operation as before it
Rec(op, p, key, sent, tafter, outcome, r, entAfter) ==
  [op |-> op, p |-> p, key |-> key, sent |-> sent,
   before |-> Stored(table, key), after |-> Stored(tafter, key),
   frame |-> \A k \in ((DOMAIN table) \cup (DOMAIN tafter)) \ {key} :
                Stored(table, k) = Stored(tafter, k),
   outcome |-> outcome, valid0 |-> User_validate(r.ent0), ent1 |-> entAfter,
   updates |-> r.updates, now |-> r.now]

\* the operation ends before any engine request is issued
EndUnsent(op, p, outcome) ==
  /\ res' = [res EXCEPT ![p] = outcome]
  /\ Observe(Rec(op, p, NoKey, FALSE, table, outcome,
                 [NoReq EXCEPT !.ent0 = ent[p], !.now = clock'], ent[p]))
  /\ UNCHANGED <<table, pc, ent, req>>

Send(p, r, e) ==
  /\ pc' = [pc EXCEPT ![p] = "sent"]
  /\ req' = [req EXCEPT ![p] = r]
  /\ ent' = [ent EXCEPT ![p] = e]
  /\ UNCHANGED <<table, res, hist>>

\* the engine's reply arrives: the command took effect atomically
Done(p, key, out, outcome, e) ==
  /\ pc' = [pc EXCEPT ![p] = "idle"]
  /\ table' = out.table
  /\ res' = [res EXCEPT ![p] = outcome]
  /\ ent' = [ent EXCEPT ![p] = e]
  /\ req' = [req EXCEPT ![p] = NoReq]
  /\ Observe(Rec(req[p].op, p, key, TRUE, out.table, outcome, req[p], e))
  /\ UNCHANGED <<clock, nops>>

Stamp(e, created, updated) ==
  Assign(e, ("createdAt" :> created) @@ ("updatedAt" :> updated))

\* {...getPrimaryKey(), ...toItem(), createdAt, updatedAt}
PutItemOf(e) ==
  Assign(Assign(User_getPrimaryKey(e), User_toItem(e)), Only(e, TimeFields))

----------------------------------------------------------------------------
(* BaseEntity operations.  The first step runs up to the await of          *)
(* docClient.send, the second is the engine's atomic step and the code     *)
(* after the await.                                                        *)

\* the operation begins and reads the clock, which never runs backwards and
\* may show the same millisecond twice
Start(p, now) ==
  /\ pc[p] = "idle"
  /\ nops < MaxOps
  /\ nops' = nops + 1
  /\ now >= clock /\ now <= MaxClock
  /\ clock' = now
  /\ UNCHANGED queryVars

Times == 0..MaxClock

NewUser(p) ==
  /\ pc[p] = "idle"
  /\ nops < MaxOps
  /\ nops' = nops + 1
  /\ \E d \in UserInputs, u \in Uuids :
        ent' = [ent EXCEPT ![p] = User_new(d, u)]
  /\ UNCHANGED <<table, clock, pc, req, res, hist, queryVars>>

\* faulty variant: create puts without a condition
BaseEntity_create_params_unconditional(e) ==
  [NoReq EXCEPT !.op = "create", !.Item = PutItemOf(e)]

\* params of create: the stamped item, on condition that no row exists
BaseEntity_create_params(e) ==
  [NoReq EXCEPT !.op = "create", !.Item = PutItemOf(e),
                !.cond = CONDITION_BUILDERS_attributeNotExists("PK")]

BaseEntity_create(p) ==
  \E now \in Times :
  /\ Start(p, now) /\ ent[p] # NoItem
  /\ IF ~User_validate(ent[p])
     THEN EndUnsent("create", p, ValidationFailed)
     ELSE LET e == Stamp(ent[p], now, now)
          IN Send(p, [BaseEntity_create_params(e) EXCEPT
                        !.ent0 = ent[p], !.now = now], e)

BaseEntity_create_reply(p) ==
  /\ pc[p] = "sent" /\ req[p].op = "create"
  /\ LET out == DynamoPut(table, req[p].Item, req[p].cond)
     IN Done(p, KeyOf(req[p].Item), out,
             IF out.error = "ConditionalCheckFailedException" THEN AlreadyExists
             ELSE IF out.error # "" THEN out.error ELSE Ok,
             ent[p])
  /\ UNCHANGED queryVars

\* faulty variant: save insists that the row exists
BaseEntity_save_params_existing(e) ==
  [NoReq EXCEPT !.op = "save", !.Item = PutItemOf(e),
                !.cond = CONDITION_BUILDERS_attributeExists("PK")]

\* params of save: the stamped item, unconditionally
BaseEntity_save_params(e) ==
  [NoReq EXCEPT !.op = "save", !.Item = PutItemOf(e)]

\* if (!this.createdAt) this.createdAt = now; this.updatedAt = now
SaveStamp(e, now) ==
  Stamp(e, IF Truthy(e, "createdAt") THEN e["createdAt"] ELSE now, now)

BaseEntity_save(p) ==
  \E now \in Times :
  /\ Start(p, now) /\ ent[p] # NoItem
  /\ IF ~User_validate(ent[p])
     THEN EndUnsent("save", p, ValidationFailed)
     ELSE LET e == SaveStamp(ent[p], now)
          IN Send(p, [BaseEntity_save_params(e) EXCEPT
                        !.ent0 = ent[p], !.now = now], e)

BaseEntity_save_reply(p) ==
  /\ pc[p] = "sent" /\ req[p].op = "save"
  /\ LET out == DynamoPut(table, req[p].Item, req[p].cond)
     IN Done(p, KeyOf(req[p].Item), out,
             IF out.error # "" THEN out.error ELSE Ok, ent[p])
  /\ UNCHANGED queryVars

\* params of update: the SET expression on the entity's key, ALL_NEW
BaseEntity_update_params(e, updates, now) ==
  [NoReq EXCEPT !.op = "update", !.Key = User_getPrimaryKey(e),
                !.expr = UPDATE_BUILDERS_set(updates, now), !.updates = updates]

BaseEntity_update(p) ==
  \E now \in Times :
  /\ Start(p, now) /\ ent[p] # NoItem /\ "id" \in DOMAIN ent[p]
  /\ \E updates \in UpdateInputs :
       Send(p, [BaseEntity_update_params(ent[p], updates, now) EXCEPT
                  !.ent0 = ent[p], !.now = now], ent[p])

\* faulty variant: the returned attributes are not assigned to the entity
AssignFromItem_dropped(e, attributes) == e

\* Object.assign(this, this.fromItem(result.Attributes))
AssignFromItem(e, attributes) ==
  Assign(Without(e, FromItemFields), User_fromItem(attributes))

BaseEntity_update_reply(p) ==
  /\ pc[p] = "sent" /\ req[p].op = "update"
  /\ LET out == DynamoUpdate(table, req[p].Key, req[p].expr)
     IN Done(p, KeyOf(req[p].Key), out,
             IF out.error # "" THEN out.error ELSE Ok,
             IF out.error = "" /\ out.Attributes # NoItem
             THEN AssignFromItem(ent[p], out.Attributes) ELSE ent[p])
  /\ UNCHANGED queryVars

BaseEntity_delete(p) ==
  LET now == clock IN
  /\ Start(p, now) /\ ent[p] # NoItem /\ "id" \in DOMAIN ent[p]
  /\ Send(p, [NoReq EXCEPT !.op = "delete", !.Key = User_getPrimaryKey(ent[p]),
                 !.ent0 = ent[p], !.now = now], ent[p])

BaseEntity_delete_reply(p) ==
  /\ pc[p] = "sent" /\ req[p].op = "delete"
  /\ LET out == DynamoDelete(table, req[p].Key)
     IN Done(p, KeyOf(req[p].Key), out,
             IF out.error # "" THEN out.error ELSE Ok, ent[p])
  /\ UNCHANGED queryVars

\* User.getById(userId) -> getByKey(KEY_BUILDERS.user(userId))
User_getById(p) ==
  LET now == clock IN
  /\ Start(p, now)
  /\ \E userId \in UserIds :
       Send(p, [NoReq EXCEPT !.op = "get", !.Key = KEY_BUILDERS_user(userId),
                  !.ent0 = ent[p], !.now = now], ent[p])

\* faulty variant: a missing row is an error
BaseEntity_getByKey_reply_throwing(p) ==
  /\ pc[p] = "sent" /\ req[p].op = "get"
  /\ LET out == DynamoGet(table, req[p].Key)
     IN Done(p, KeyOf(req[p].Key), out,
             IF out.Attributes = NoItem THEN "NotFoundError" ELSE Ok,
             IF out.Attributes = NoItem THEN NoItem
             ELSE User_fromItem(out.Attributes))
  /\ UNCHANGED queryVars

\* Object.assign(new this(), instance.fromItem(result.Item)), or null
BaseEntity_getByKey_reply(p) ==
  /\ pc[p] = "sent" /\ req[p].op = "get"
  /\ LET out == DynamoGet(table, req[p].Key)
     IN Done(p, KeyOf(req[p].Key), out,
             IF out.error # "" THEN out.error ELSE Ok,
             IF out.Attributes = NoItem THEN NoItem
             ELSE User_fromItem(out.Attributes))
  /\ UNCHANGED queryVars

----------------------------------------------------------------------------
(* BaseRepository.batchWrite: chunks of 25 put requests, one                *)
(* BatchWriteCommand per chunk.  The engine puts each item of a request     *)
(* atomically and on its own, and may leave any of them unprocessed.        *)

Min(a, b) == IF a < b THEN a ELSE b

\* a chunkArray that slices one element past the chunk size
RECURSIVE chunkArray_long(_, _)
chunkArray_long(array, size) ==
  IF Len(array) = 0 THEN << >>
  ELSE << SubSeq(array, 1, Min(size + 1, Len(array))) >>
         \o chunkArray_long(SubSeq(array, size + 2, Len(array)), size)

RECURSIVE chunkArray(_, _)
chunkArray(array, size) ==
  IF Len(array) = 0 THEN << >>
  ELSE << SubSeq(array, 1, Min(size, Len(array))) >>
         \o chunkArray(SubSeq(array, size + 1, Len(array)), size)

\* the clock readings of one chunk's map: two per entity, never decreasing
ChunkReadings(n, from) ==
  {r \in [1..(2 * n) -> from..MaxClock] :
      \A i \in 1..(2 * n - 1) : r[i] <= r[i + 1]}

\* createdAt: entity.createdAt || now, updatedAt: now
BatchPutItem(e, now1, now2) ==
  Assign(Assign(User_getPrimaryKey(e), User_toItem(e)),
         ("createdAt" :> (IF Truthy(e, "createdAt") THEN e["createdAt"] ELSE now1))
           @@ ("updatedAt" :> now2))

PutRequests(chunk, r) ==
  [i \in 1..Len(chunk) |->
     [Item |-> BatchPutItem(chunk[i], r[2 * i - 1], r[2 * i]), entity |-> chunk[i]]]

\* the primary keys of a list of key objects, and of a list of entities
Keys(list) == [i \in 1..Len(list) |-> KeyOf(list[i])]
EntityKeys(entities) ==
  [i \in 1..Len(entities) |-> KeyOf(User_getPrimaryKey(entities[i]))]

\* batchWrite(entities) up to the first await; an empty list sends nothing
BatchWriteOf(p, entities) ==
  /\ pc[p] = "idle"
  /\ nops < MaxOps
  /\ nops' = nops + 1
  /\ IF Len(entities) = 0
     THEN /\ call' = [NoCall EXCEPT !.op = "batchWrite", !.returned = TRUE]
          /\ res' = [res EXCEPT ![p] = Ok]
          /\ UNCHANGED <<clock, pc, req>>
     ELSE \E r \in ChunkReadings(Len(chunkArray(entities, 25)[1]), clock) :
            /\ clock' = r[2 * Len(chunkArray(entities, 25)[1])]
            /\ pc' = [pc EXCEPT ![p] = "sent"]
            /\ req' = [req EXCEPT ![p] =
                         [NoReq EXCEPT
                            !.op = "batchWrite",
                            !.pending = PutRequests(chunkArray(entities, 25)[1], r),
                            !.chunks = Tail(chunkArray(entities, 25)),
                            !.now = r[1]]]
            /\ call' = [NoCall EXCEPT
                          !.op = "batchWrite", !.input = entities,
                          !.requests =
                             << EntityKeys(chunkArray(entities, 25)[1]) >>]
            /\ UNCHANGED res
  /\ UNCHANGED <<table, ent, hist, idx, qry, pager, allp, cnt, tok, resolverCache, evt>>

BaseRepository_batchWrite(p) == \E entities \in BatchInputs : BatchWriteOf(p, entities)

\* the engine handles the next put request of the BatchWriteItem call
Dynamo_batchWriteItem(p) ==
  /\ pc[p] = "sent" /\ req[p].op = "batchWrite" /\ req[p].pending # << >>
  /\ LET put == Head(req[p].pending)
         key == KeyOf(put.Item)
     IN \E processed \in BOOLEAN :
          LET out == IF processed THEN DynamoPut(table, put.Item, NoCondition)
                     ELSE [table |-> table, error |-> "Unprocessed",
                           Attributes |-> NoItem]
          IN /\ table' = out.table
             /\ call' = IF processed THEN call
                        ELSE [call EXCEPT !.unprocessed = Append(@, key)]
             /\ Observe(Rec("batchWrite", p, key, TRUE, out.table,
                            IF processed THEN Ok ELSE "Unprocessed",
                            [req[p] EXCEPT !.ent0 = put.entity], put.entity))
  /\ req' = [req EXCEPT ![p].pending = Tail(@)]
  /\ UNCHANGED <<clock, pc, ent, res, nops, idx, qry, pager, allp, cnt, tok, resolverCache, evt>>

\* the response of a chunk: unprocessed items are logged; then the next chunk
BaseRepository_batchWrite_reply(p) ==
  /\ pc[p] = "sent" /\ req[p].op = "batchWrite" /\ req[p].pending = << >>
  /\ IF req[p].chunks # << >>
     THEN \E r \in ChunkReadings(Len(req[p].chunks[1]), clock) :
            /\ req' = [req EXCEPT ![p].pending = PutRequests(req[p].chunks[1], r),
                                  ![p].chunks = Tail(@)]
            /\ call' = [call EXCEPT !.requests =
                          Append(@, EntityKeys(req[p].chunks[1]))]
            /\ clock' = r[2 * Len(req[p].chunks[1])]
            /\ UNCHANGED <<pc, res>>
     ELSE /\ pc' = [pc EXCEPT ![p] = "idle"]
          /\ res' = [res EXCEPT ![p] = Ok]
          /\ req' = [req EXCEPT ![p] = NoReq]
          /\ call' = [call EXCEPT !.returned = TRUE]
          /\ UNCHANGED clock
  /\ UNCHANGED <<table, ent, hist, nops, idx, qry, pager, allp, cnt, tok, resolverCache, evt>>

----------------------------------------------------------------------------
(* BaseRepository.batchGet: chunks of 100 keys, one BatchGetCommand per     *)
(* chunk.  The engine returns the items of the keys it processed and may    *)
(* report any of the keys as unprocessed.                                   *)

\* the key lists handed to batchGet
KeyInputs ==
  { << KEY_BUILDERS_user("u1") >>,
    << KEY_BUILDERS_user("u2"), KEY_BUILDERS_user("u1") >> }

\* BatchGetItem: the stored items of the keys at the positions outside U, in
\* the order of the keys
RECURSIVE DynamoBatchGet(_, _, _, _)
DynamoBatchGet(tbl, keys, U, i) ==
  IF i > Len(keys) THEN << >>
  ELSE (IF i \notin U /\ KeyOf(keys[i]) \in DOMAIN tbl
        THEN << tbl[KeyOf(keys[i])] >> ELSE << >>)
         \o DynamoBatchGet(tbl, keys, U, i + 1)

\* batchGet(keys) up to the first await; an empty list sends nothing
BatchGetOf(p, keys) ==
  /\ pc[p] = "idle"
  /\ nops < MaxOps
  /\ nops' = nops + 1
  /\ IF Len(keys) = 0
     THEN /\ call' = [NoCall EXCEPT !.op = "batchGet", !.returned = TRUE]
          /\ res' = [res EXCEPT ![p] = Ok]
          /\ UNCHANGED <<pc, req>>
     ELSE /\ pc' = [pc EXCEPT ![p] = "sent"]
          /\ req' = [req EXCEPT ![p] =
                       [NoReq EXCEPT !.op = "batchGet",
                                     !.pending = chunkArray(keys, 100)[1],
                                     !.chunks = Tail(chunkArray(keys, 100))]]
          /\ call' = [NoCall EXCEPT !.op = "batchGet", !.input = keys,
                                    !.requests = << Keys(chunkArray(keys, 100)[1]) >>]
          /\ UNCHANGED res
  /\ UNCHANGED <<table, clock, ent, hist, idx, qry, pager, allp, cnt, tok, resolverCache, evt>>

BaseRepository_batchGet(p) == \E keys \in KeyInputs : BatchGetOf(p, keys)

\* the response of a chunk, the keys at the positions U unprocessed: the
\* items become entities, unprocessed keys are logged; then the next chunk,
\* or the return of allItems
BatchGetReply(p, U) ==
  /\ pc[p] = "sent" /\ req[p].op = "batchGet"
  /\ LET Items == DynamoBatchGet(table, req[p].pending, U, 1)
         left == SelectSeq(Keys(req[p].pending),
                           LAMBDA k : \E i \in U : KeyOf(req[p].pending[i]) = k)
         seen == [call EXCEPT
                    !.result = @ \o [i \in 1..Len(Items) |-> User_fromItem(Items[i])],
                    !.unprocessed = @ \o left]
     IN IF req[p].chunks # << >>
        THEN /\ req' = [req EXCEPT ![p].pending = req[p].chunks[1],
                                   ![p].chunks = Tail(@)]
             /\ call' = [seen EXCEPT !.requests = Append(@, Keys(req[p].chunks[1]))]
             /\ UNCHANGED <<pc, res>>
        ELSE /\ pc' = [pc EXCEPT ![p] = "idle"]
             /\ res' = [res EXCEPT ![p] = Ok]
             /\ req' = [req EXCEPT ![p] = NoReq]
             /\ call' = [seen EXCEPT !.returned = TRUE]
  /\ UNCHANGED <<table, clock, ent, hist, nops, idx, qry, pager, allp, cnt, tok, resolverCache, evt>>

BaseRepository_batchGet_reply(p) ==
  \E U \in SUBSET (1..Len(req[p].pending)) : BatchGetReply(p, U)

----------------------------------------------------------------------------
(* Specification of the single-item operations: one caller at a time.      *)

QueryIdle ==
  /\ idx = << >>
  /\ qry = << >>
  /\ pager = << >>
  /\ allp = << >>
  /\ cnt = << >>
  /\ tok = << >>
  /\ call = NoCall
  /\ resolverCache = << >>
  /\ evt = << >>

\* a table that holds one user, as a create at time 0 leaves it
SeededTable ==
  LET e == Stamp(User_new(CHOOSE d \in UserInputs : d["clerkId"] = "c1", "g1"), 0, 0)
  IN KeyOf(PutItemOf(e)) :> PutItemOf(e)

\* the table is empty, or holds one user that the first caller may have loaded
StoreInit ==
  /\ table \in {<< >>, SeededTable}
  /\ clock = 0
  /\ pc = [p \in Procs |-> "idle"]
  /\ ent \in {[p \in Procs |-> NoItem]} \cup
             {[p \in Procs |-> IF p = 1 THEN User_fromItem(table[k]) ELSE NoItem] :
                k \in DOMAIN table}
  /\ req = [p \in Procs |-> NoReq]
  /\ res = [p \in Procs |-> ""]
  /\ hist = << >>
  /\ nops = 0

Init == StoreInit /\ QueryIdle

Next ==
  \/ NewUser(1)
  \/ BaseEntity_create(1)
  \/ BaseEntity_create_reply(1)
  \/ BaseEntity_save(1)
  \/ BaseEntity_save_reply(1)
  \/ BaseEntity_update(1)
  \/ BaseEntity_update_reply(1)
  \/ BaseEntity_delete(1)
  \/ BaseEntity_delete_reply(1)
  \/ User_getById(1)
  \/ BaseEntity_getByKey_reply(1)
  \/ BaseRepository_batchWrite(1)
  \/ Dynamo_batchWriteItem(1)
  \/ BaseRepository_batchWrite_reply(1)
  \/ BaseRepository_batchGet(1)
  \/ BaseRepository_batchGet_reply(1)

Spec == Init /\ [][Next]_vars

----------------------------------------------------------------------------
(* Continuation tokens: JSON.stringify, Buffer.from(text) (UTF-8),          *)
(* toString('base64'), Buffer.from(token, 'base64'), toString() and         *)
(* JSON.parse, character by character.  Texts are over printable ASCII,     *)
(* one byte per character.  A value that may be undefined is a sequence of  *)
(* length 0 (undefined) or 1.                                               *)

Absent == << >>
Some(v) == <<v>>

\* the printable ASCII characters from code 32 on and from code 97 on (the
\* grave accent, code 96, is not among the characters of the model)
AsciiFrom32 == " !\"#$%&'()*+,-./0123456789:;<=>?@ABCDEFGHIJKLMNOPQRSTUVWXYZ[\\]^_"
AsciiFrom97 == "abcdefghijklmnopqrstuvwxyz{|}~"

\* the code unit of every character
CodeOf ==
  [c \in CharSet(AsciiFrom32) |-> 31 + IndexIn(c, AsciiFrom32)]
    @@ [c \in CharSet(AsciiFrom97) |-> 96 + IndexIn(c, AsciiFrom97)]

Chr(n) == IF n < 96 THEN CharAt(AsciiFrom32, n - 31) ELSE CharAt(AsciiFrom97, n - 96)

\* Buffer.from(text): the UTF-8 bytes
Utf8Bytes(text) == [i \in 1..Len(text) |-> CodeOf[CharAt(text, i)]]

\* buffer.toString(): bytes that are not printable ASCII decode to a
\* character no JSON text of the model contains (a control character or
\* U+FFFD), written DEL here
RECURSIVE Utf8Text(_)
Utf8Text(bytes) ==
  IF Len(bytes) = 0 THEN ""
  ELSE (IF bytes[1] \in (32..95) \cup (97..126) THEN Chr(bytes[1]) ELSE "DEL")
         \o Utf8Text(Tail(bytes))

Base64Alphabet == "ABCDEFGHIJKLMNOPQRSTUVWXYZabcdefghijklmnopqrstuvwxyz0123456789+/"

B64Char(n) == CharAt(Base64Alphabet, n + 1)

\* the sextet of every legal character; the decoder also takes the URL-safe
\* characters
Unbase64 ==
  [c \in CharSet(Base64Alphabet) |-> IndexIn(c, Base64Alphabet) - 1]
    @@ ("-" :> 62) @@ ("_" :> 63)

\* buffer.toString('base64')
RECURSIVE Base64Encode(_)
Base64Encode(bytes) ==
  IF Len(bytes) = 0 THEN ""
  ELSE IF Len(bytes) = 1
  THEN B64Char(bytes[1] \div 4) \o B64Char((bytes[1] % 4) * 16) \o "=="
  ELSE IF Len(bytes) = 2
  THEN B64Char(bytes[1] \div 4)
         \o B64Char((bytes[1] % 4) * 16 + bytes[2] \div 16)
         \o B64Char((bytes[2] % 16) * 4) \o "="
  ELSE B64Char(bytes[1] \div 4)
         \o B64Char((bytes[1] % 4) * 16 + bytes[2] \div 16)
         \o B64Char((bytes[2] % 16) * 4 + bytes[3] \div 64)
         \o B64Char(bytes[3] % 64)
         \o Base64Encode(SubSeq(bytes, 4, Len(bytes)))

\* the sextets of a token: illegal characters are skipped, "=" ends decoding
RECURSIVE Sextets(_)
Sextets(token) ==
  IF Len(token) = 0 \/ CharAt(token, 1) = "=" THEN << >>
  ELSE (IF CharAt(token, 1) \in DOMAIN Unbase64
        THEN << Unbase64[CharAt(token, 1)] >> ELSE << >>)
         \o Sextets(SubSeq(token, 2, Len(token)))

RECURSIVE SextetBytes(_)
SextetBytes(x) ==
  IF Len(x) < 2 THEN << >>
  ELSE IF Len(x) = 2 THEN << x[1] * 4 + x[2] \div 16 >>
  ELSE IF Len(x) = 3
  THEN << x[1] * 4 + x[2] \div 16, (x[2] % 16) * 16 + x[3] \div 4 >>
  ELSE << x[1] * 4 + x[2] \div 16, (x[2] % 16) * 16 + x[3] \div 4,
          (x[3] % 4) * 64 + x[4] >>
         \o SextetBytes(SubSeq(x, 5, Len(x)))

\* Buffer.from(token, 'base64')
Base64Decode(token) == SextetBytes(Sextets(token))

\* a serializer that escapes nothing
JsonEscape_raw(str) == str

\* JSON.stringify of a string: quotes and backslashes are escaped
RECURSIVE JsonEscape(_)
JsonEscape(str) ==
  IF Len(str) = 0 THEN ""
  ELSE (IF CharAt(str, 1) \in {"\"", "\\"} THEN "\\" \o CharAt(str, 1)
        ELSE CharAt(str, 1))
         \o JsonEscape(SubSeq(str, 2, Len(str)))

JsonQuote(str) == "\"" \o JsonEscape(str) \o "\""

\* JSON.stringify of an object whose values are strings; the object is the
\* sequence of its <<name, value>> properties in insertion order
RECURSIVE JsonMembers(_)
JsonMembers(props) ==
  IF Len(props) = 0 THEN ""
  ELSE JsonQuote(props[1][1]) \o ":" \o JsonQuote(props[1][2])
         \o (IF Len(props) > 1 THEN "," ELSE "")
         \o JsonMembers(Tail(props))

JSON_stringify(props) == "{" \o JsonMembers(props) \o "}"

\* a JSON string starting at text[i] (the opening quote):
\* [ok, str, next], next the position after the closing quote
RECURSIVE JsonStringBody(_, _, _)
JsonStringBody(text, i, acc) ==
  IF i > Len(text) THEN [ok |-> FALSE, str |-> "", next |-> i]
  ELSE LET c == CharAt(text, i)
       IN IF c = "\"" THEN [ok |-> TRUE, str |-> acc, next |-> i + 1]
          ELSE IF c = "\\"
          THEN IF i + 1 <= Len(text) /\ CharAt(text, i + 1) \in {"\"", "\\", "/"}
               THEN JsonStringBody(text, i + 2, acc \o CharAt(text, i + 1))
               ELSE [ok |-> FALSE, str |-> "", next |-> i]
          ELSE IF c \in DOMAIN CodeOf
          THEN JsonStringBody(text, i + 1, acc \o c)
          ELSE [ok |-> FALSE, str |-> "", next |-> i]

JsonString(text, i) ==
  IF i <= Len(text) /\ CharAt(text, i) = "\"" THEN JsonStringBody(text, i + 1, "")
  ELSE [ok |-> FALSE, str |-> "", next |-> i]

\* a later property of the same name replaces the earlier one in its place
PutProp(props, k, v) ==
  IF \E j \in 1..Len(props) : props[j][1] = k
  THEN [j \in 1..Len(props) |-> IF props[j][1] = k THEN <<k, v>> ELSE props[j]]
  ELSE Append(props, <<k, v>>)

\* the members of an object from text[i] on, up to the closing brace:
\* a name, a colon, a value, then a comma or the brace that ends the text
RECURSIVE JsonObjectBody(_, _, _)

JsonAfterValue(text, acc, k, v) ==
  IF ~v.ok \/ v.next > Len(text) THEN [ok |-> FALSE, props |-> << >>]
  ELSE IF CharAt(text, v.next) = "}"
  THEN [ok |-> v.next = Len(text), props |-> PutProp(acc, k.str, v.str)]
  ELSE IF CharAt(text, v.next) = ","
  THEN JsonObjectBody(text, v.next + 1, PutProp(acc, k.str, v.str))
  ELSE [ok |-> FALSE, props |-> << >>]

JsonAfterName(text, acc, k) ==
  IF ~k.ok \/ k.next > Len(text) \/ CharAt(text, k.next) # ":"
  THEN [ok |-> FALSE, props |-> << >>]
  ELSE JsonAfterValue(text, acc, k, JsonString(text, k.next + 1))

JsonObjectBody(text, i, acc) == JsonAfterName(text, acc, JsonString(text, i))

JsonObjectResult(r) ==
  IF r.ok THEN [error |-> "", value |-> r.props]
  ELSE [error |-> "SyntaxError", value |-> << >>]

\* JSON.parse on the texts of the model: an object of string values, or a
\* text that is no JSON at all (arrays, numbers, nested objects and white
\* space do not occur).  [error, value]
JSON_parse(text) ==
  IF Len(text) >= 2 /\ CharAt(text, 1) = "{"
  THEN IF text = "{}" THEN [error |-> "", value |-> << >>]
       ELSE JsonObjectResult(JsonObjectBody(text, 2, << >>))
  ELSE [error |-> "SyntaxError", value |-> << >>]

\* faulty variant: an absent key is encoded like any value ("null")
createNextToken_null(lastEvaluatedKey) ==
  IF lastEvaluatedKey = Absent THEN Some("bnVsbA==")
  ELSE Some(Base64Encode(Utf8Bytes(JSON_stringify(lastEvaluatedKey[1]))))

\* createNextToken(lastEvaluatedKey)
createNextToken(lastEvaluatedKey) ==
  IF lastEvaluatedKey = Absent THEN Absent
  ELSE Some(Base64Encode(Utf8Bytes(JSON_stringify(lastEvaluatedKey[1]))))

\* the value JSON.parse returned, or the error it threw
Parsed(r) ==
  [error |-> r.error, value |-> IF r.error = "" THEN Some(r.value) ELSE Absent]

\* nextToken ? JSON.parse(Buffer.from(nextToken, 'base64').toString())
\*           : undefined       (the empty string is falsy)
DecodeToken(nextToken) ==
  IF nextToken = Absent \/ Len(nextToken[1]) = 0
  THEN [error |-> "", value |-> Absent]
  ELSE Parsed(JSON_parse(Utf8Text(Base64Decode(nextToken[1]))))

DefaultLimit == 20

\* parsePaginationParams with the decoded token left out of its result
PaginationParams_fresh(limit, startKey) ==
  [Limit |-> IF limit # 0 THEN limit ELSE DefaultLimit,
   ExclusiveStartKey |-> Absent, error |-> startKey.error]

PaginationParams(limit, startKey) ==
  [Limit |-> IF limit # 0 THEN limit ELSE DefaultLimit,
   ExclusiveStartKey |-> startKey.value, error |-> startKey.error]

\* parsePaginationParams(params): params.limit 0 stands for no limit given
parsePaginationParams(params) ==
  PaginationParams(params.limit, DecodeToken(params.nextToken))

----------------------------------------------------------------------------
(* The engine's Query on ExternalIdIndex (hash ExternalIdKey, range SK).    *)
(* The items of a partition are ordered by the range key, as UTF-8 bytes,   *)
(* then by the table's primary key.                                         *)

RECURSIVE StrLess(_, _)
StrLess(a, b) ==
  IF Len(b) = 0 THEN FALSE
  ELSE IF Len(a) = 0 THEN TRUE
  ELSE LET x == CodeOf[CharAt(a, 1)]
           y == CodeOf[CharAt(b, 1)]
       IN x < y \/ (x = y /\ StrLess(SubSeq(a, 2, Len(a)), SubSeq(b, 2, Len(b))))

IndexKeyLess(a, b) ==
  \/ StrLess(a["SK"], b["SK"])
  \/ a["SK"] = b["SK"] /\ StrLess(a["PK"], b["PK"])

RECURSIVE SortItems(_)
SortItems(S) ==
  IF S = {} THEN << >>
  ELSE LET least == CHOOSE x \in S : \A y \in S \ {x} : IndexKeyLess(x, y)
       IN << least >> \o SortItems(S \ {least})

\* the items of one partition of the index, in index order
IndexItems(tbl, hash) ==
  SortItems({tbl[k] : k \in {j \in DOMAIN tbl :
                                /\ "ExternalIdKey" \in DOMAIN tbl[j]
                                /\ tbl[j]["ExternalIdKey"] = hash}})

Reverse(seq) == [i \in 1..Len(seq) |-> seq[Len(seq) + 1 - i]]

\* the object a sequence of properties stands for
ObjOf(props) ==
  [k \in {props[i][1] : i \in 1..Len(props)} |->
     props[CHOOSE i \in 1..Len(props) : props[i][1] = k][2]]

IndexKeyNames == {"ExternalIdKey", "SK", "PK"}

\* the orders in which the engine's response may list the key attributes
KeyOrders == { <<"ExternalIdKey", "SK", "PK">>, <<"PK", "SK", "ExternalIdKey">> }

\* LastEvaluatedKey: the index key and the primary key of an item
MarkerOf(item, order) == [i \in 1..Len(order) |-> <<order[i], item[order[i]]>>]

\* an ExclusiveStartKey is accepted when it has the key attributes of the
\* index and lies in the partition queried
ValidStartKey(props, hash) ==
  /\ DOMAIN ObjOf(props) = IndexKeyNames
  /\ ObjOf(props)["ExternalIdKey"] = hash

Passes(item, filter) ==
  filter = Absent \/ ("kycStatus" \in DOMAIN item /\ item["kycStatus"] = filter[1])

\* the items of the scan that come after the ExclusiveStartKey
AfterStartKey(scan, q) ==
  LET After(it) ==
        \/ q.ExclusiveStartKey = Absent
        \/ IF q.ScanIndexForward
           THEN IndexKeyLess(ObjOf(q.ExclusiveStartKey[1]), it)
           ELSE IndexKeyLess(it, ObjOf(q.ExclusiveStartKey[1]))
  IN SelectSeq(scan, After)

\* the response when n of the items that remain are evaluated
QueryPage(rest, q, n, cut, order) ==
  LET Pass(it) == Passes(it, q.filter)
  IN [error |-> "",
      Items |-> SelectSeq(SubSeq(rest, 1, n), Pass),
      Count |-> Len(SelectSeq(SubSeq(rest, 1, n), Pass)),
      LastEvaluatedKey |->
        IF n >= 1 /\ ((q.Limit # 0 /\ n = q.Limit) \/ n = cut)
        THEN Some(MarkerOf(rest[n], order)) ELSE Absent]

QueryRest(rest, q, cut, order) ==
  QueryPage(rest, q,
            Min(IF q.Limit = 0 THEN cut ELSE Min(q.Limit, cut), Len(rest)),
            cut, order)

\* Query: q.Limit 0 stands for no Limit; cut is the number of items after
\* which the response reaches its size cap.  Limit and the cap count the
\* items evaluated, before the filter; LastEvaluatedKey is present when
\* either of them stopped the evaluation.
DynamoQuery(items, q, cut, order) ==
  IF q.ExclusiveStartKey # Absent /\ ~ValidStartKey(q.ExclusiveStartKey[1], q.hash)
  THEN [error |-> "ValidationException", Items |-> << >>, Count |-> 0,
        LastEvaluatedKey |-> Absent]
  ELSE QueryRest(AfterStartKey(IF q.ScanIndexForward THEN items ELSE Reverse(items), q),
                 q, cut, order)

OutcomesOn(items) ==
  {DynamoQuery(items, qry, cut, order) :
     cut \in 1..(Len(items) + 1), order \in KeyOrders}

\* every response the engine may give to the query in flight
QueryOutcomes == OutcomesOn(IndexItems(table, qry.hash))

----------------------------------------------------------------------------
(* BaseRepository.queryByIndex, queryAllPages and countByIndex.             *)

NoQuery ==
  [who |-> "", hash |-> "", Limit |-> 0, ExclusiveStartKey |-> Absent,
   ScanIndexForward |-> FALSE, filter |-> Absent, Select |-> "", error |-> ""]

\* faulty variant: the query runs forward whatever the caller asks
QueryCommandInput_forward(who, index, options, paginationParams) ==
  [who |-> who, hash |-> index.hash,
   Limit |-> paginationParams.Limit,
   ExclusiveStartKey |-> paginationParams.ExclusiveStartKey,
   ScanIndexForward |-> TRUE,
   filter |-> index.filter, Select |-> "ALL_ATTRIBUTES",
   error |-> paginationParams.error]

QueryCommandInput(who, index, options, paginationParams) ==
  [who |-> who, hash |-> index.hash,
   Limit |-> paginationParams.Limit,
   ExclusiveStartKey |-> paginationParams.ExclusiveStartKey,
   ScanIndexForward |-> IF options.scanIndexForward = Absent THEN FALSE
                        ELSE options.scanIndexForward[1],
   filter |-> index.filter, Select |-> "ALL_ATTRIBUTES",
   error |-> paginationParams.error]

\* queryByIndex up to the await: the QueryCommandInput, or the error thrown
\* while it is built
queryByIndex_params(who, index, options) ==
  QueryCommandInput(who, index, options, parsePaginationParams(options.pagination))

\* queryByIndex after the await: entities, nextToken and count
queryByIndex_result(out) ==
  [error |-> out.error,
   items |-> [i \in 1..Len(out.Items) |-> User_fromItem(out.Items[i])],
   nextToken |-> createNextToken(out.LastEvaluatedKey),
   count |-> out.Count]

\* JavaScript truthiness of a token: undefined and "" are falsy
TokenTruthy(nextToken) == nextToken # Absent /\ Len(nextToken[1]) > 0

\* no call is under way (calls are taken one after the other: the index does
\* not change and the calls share nothing)
NoneActive ==
  /\ qry = NoQuery
  /\ pager.state # "paging"
  /\ allp.state # "looping"
  /\ cnt.state # "looping"

\* a behaviour holds either the two reads that are compared, page by page
\* and queryAllPages, or one countByIndex (alone or after a queryAllPages),
\* or one queryByIndex with a token of the client's
Apart(others) == NoneActive /\ \A c \in others : c.state = "new"

QueryFrame == UNCHANGED storeVars /\ UNCHANGED <<idx, call, resolverCache, evt>>

\* the client asks for the next page of one item, handing back the token of
\* the page before
Pager_send(q) ==
  IF q.error # ""
  THEN /\ pager' = [pager EXCEPT !.state = "failed"]
       /\ qry' = qry
  ELSE /\ pager' = [pager EXCEPT !.state = "paging"]
       /\ qry' = q

Pager_queryByIndex ==
  /\ qry = NoQuery
  /\ \/ pager.state = "new" /\ Apart({cnt, tok})
     \/ pager.state = "paging"
  /\ Pager_send(queryByIndex_params("pager", idx,
                  [pagination |-> [limit |-> 1, nextToken |-> pager.nextToken],
                   scanIndexForward |-> Absent]))
  /\ UNCHANGED <<allp, cnt, tok>> /\ QueryFrame

Pager_receive(out, r) ==
  pager' = IF r.error # "" THEN [pager EXCEPT !.state = "failed"]
           ELSE [state |-> IF r.nextToken = Absent THEN "done" ELSE "paging",
                 items |-> pager.items \o r.items,
                 nextToken |-> r.nextToken,
                 lek |-> out.LastEvaluatedKey]

Pager_page ==
  /\ qry.who = "pager"
  /\ \E out \in QueryOutcomes : Pager_receive(out, queryByIndex_result(out))
  /\ qry' = NoQuery
  /\ UNCHANGED <<allp, cnt, tok>> /\ QueryFrame

DefaultMaxItems == 1000
PageLimit == 100

\* options?.maxItems || 1000: the default when maxItems is undefined or 0
EffectiveMaxItems(maxItems) ==
  IF maxItems # Absent /\ maxItems[1] # 0 THEN maxItems[1] ELSE DefaultMaxItems

AllPages_send(q) ==
  IF q.error # ""
  THEN /\ allp' = [allp EXCEPT !.state = "failed"]
       /\ qry' = qry
  ELSE /\ allp' = [allp EXCEPT !.state = "looping"]
       /\ qry' = q

\* one turn of the loop of queryAllPages, up to the await
BaseRepository_queryAllPages ==
  /\ qry = NoQuery
  /\ \/ allp.state = "new" /\ Apart({cnt, tok})
     \/ allp.state = "looping"
  /\ AllPages_send(queryByIndex_params("allp", idx,
       [pagination |->
          [limit |-> Min(PageLimit,
                         EffectiveMaxItems(allp.maxItems) - Len(allp.allItems)),
           nextToken |-> allp.nextToken],
        scanIndexForward |-> Absent]))
  /\ UNCHANGED <<pager, cnt, tok>> /\ QueryFrame

\* faulty variant: the loop goes on as long as a token comes back
AllPages_receive_unbounded(out, r, maxItems) ==
  LET allItems == allp.allItems \o r.items
      again == TokenTruthy(r.nextToken)
  IN allp' = IF r.error # "" THEN [allp EXCEPT !.state = "failed"]
             ELSE [allp EXCEPT
                     !.state = IF again THEN "looping" ELSE "done",
                     !.allItems = allItems,
                     !.nextToken = r.nextToken,
                     !.lek = out.LastEvaluatedKey,
                     !.result = IF again THEN << >>
                                ELSE SubSeq(allItems, 1, Min(maxItems, Len(allItems)))]

\* the rest of the turn: push the page, break at maxItems, while (nextToken),
\* and the slice returned
AllPages_receive(out, r, maxItems) ==
  LET allItems == allp.allItems \o r.items
      again == Len(allItems) < maxItems /\ TokenTruthy(r.nextToken)
  IN allp' = IF r.error # "" THEN [allp EXCEPT !.state = "failed"]
             ELSE [allp EXCEPT
                     !.state = IF again THEN "looping" ELSE "done",
                     !.allItems = allItems,
                     !.nextToken = r.nextToken,
                     !.lek = out.LastEvaluatedKey,
                     !.result = IF again THEN << >>
                                ELSE SubSeq(allItems, 1, Min(maxItems, Len(allItems)))]

BaseRepository_queryAllPages_page ==
  /\ qry.who = "allp"
  /\ \E out \in QueryOutcomes :
       AllPages_receive(out, queryByIndex_result(out),
                        EffectiveMaxItems(allp.maxItems))
  /\ qry' = NoQuery
  /\ UNCHANGED <<pager, cnt, tok>> /\ QueryFrame

Count_send(d) ==
  IF d.error # ""
  THEN /\ cnt' = [cnt EXCEPT !.state = "failed"]
       /\ qry' = qry
  ELSE /\ cnt' = [cnt EXCEPT !.state = "looping"]
       /\ qry' = [who |-> "cnt", hash |-> idx.hash, Limit |-> 0,
                  ExclusiveStartKey |-> d.value, ScanIndexForward |-> TRUE,
                  filter |-> idx.filter, Select |-> "COUNT", error |-> ""]

\* one turn of the loop of countByIndex, up to the await: Select COUNT, no
\* Limit, the default direction, the token decoded in place
BaseRepository_countByIndex ==
  /\ qry = NoQuery
  /\ \/ cnt.state = "new" /\ Apart({pager, tok})
     \/ cnt.state = "looping"
  /\ Count_send(DecodeToken(cnt.nextToken))
  /\ UNCHANGED <<pager, allp, tok>> /\ QueryFrame

\* a countByIndex that keeps the count of the last page only
Count_receive_last(out, nextToken) ==
  cnt' = IF out.error # "" THEN [cnt EXCEPT !.state = "failed"]
         ELSE [state |-> IF TokenTruthy(nextToken) THEN "looping" ELSE "done",
               count |-> out.Count,
               nextToken |-> nextToken,
               pages |-> cnt.pages + 1]

\* count += result.Count || 0, and the token of the next turn; pages is the
\* number of responses received
Count_receive(out, nextToken) ==
  cnt' = IF out.error # "" THEN [cnt EXCEPT !.state = "failed"]
         ELSE [state |-> IF TokenTruthy(nextToken) THEN "looping" ELSE "done",
               count |-> cnt.count + out.Count,
               nextToken |-> nextToken,
               pages |-> cnt.pages + 1]

BaseRepository_countByIndex_page ==
  /\ qry.who = "cnt"
  /\ \E out \in QueryOutcomes :
       Count_receive(out, createNextToken(out.LastEvaluatedKey))
  /\ qry' = NoQuery
  /\ UNCHANGED <<pager, allp, tok>> /\ QueryFrame

\* tokens a client may hand to queryByIndex that createNextToken never
\* produced for the query: the empty string, text that is not base64, the
\* base64 of text that is not JSON, and the tokens of other queries (another
\* partition of the index, another index)
ForeignPartitionToken ==
  createNextToken(Some(<< <<"ExternalIdKey", "CLERK#zz">>, <<"SK", "USER#o1">>,
                          <<"PK", "USER#o1">> >>))[1]

ForeignIndexToken ==
  createNextToken(Some(<< <<"EmailKey", "EMAIL#ann@ex.io">>, <<"PK", "USER#a1">>,
                          <<"SK", "USER#a1">> >>))[1]

UntrustedTokens ==
  {"", "!!!", "bm9wZQ==", ForeignPartitionToken, ForeignIndexToken}

Token_send(t, q) ==
  IF q.error # ""
  THEN /\ tok' = [state |-> "done", token |-> t, error |-> q.error,
                  sent |-> FALSE, restarted |-> FALSE, items |-> << >>]
       /\ qry' = qry
  ELSE /\ tok' = [state |-> "sent", token |-> t, error |-> "",
                  sent |-> TRUE,
                  restarted |-> q.ExclusiveStartKey = Absent,
                  items |-> << >>]
       /\ qry' = q

\* queryByIndex with a token of the client's, up to the await
BaseRepository_queryByIndex ==
  /\ tok.state = "new" /\ Apart({pager, allp, cnt})
  /\ \E t \in UntrustedTokens, limit \in {0, 1}, fwd \in {Absent, Some(TRUE)} :
       Token_send(t, queryByIndex_params("tok", idx,
                       [pagination |-> [limit |-> limit, nextToken |-> Some(t)],
                        scanIndexForward |-> fwd]))
  /\ UNCHANGED <<pager, allp, cnt>> /\ QueryFrame

\* queryByIndex after the await: the page, or the engine's error rethrown
BaseRepository_queryByIndex_page ==
  /\ qry.who = "tok"
  /\ \E out \in QueryOutcomes :
       tok' = [tok EXCEPT !.state = "done",
                          !.error = queryByIndex_result(out).error,
                          !.items = queryByIndex_result(out).items]
  /\ qry' = NoQuery
  /\ UNCHANGED <<pager, allp, cnt>> /\ QueryFrame

----------------------------------------------------------------------------
(* Specification of the queries: a table of up to MaxIndex users of one     *)
(* Clerk id and one user of another, which does not change while a client   *)
(* pages through ExternalIdIndex, queryAllPages and countByIndex run and a  *)
(* client hands queryByIndex a token of its own.                            *)

IdPool == <<"a", "u\"", "x\\y">>

IdOf(i) == IdPool[((i - 1) % Len(IdPool)) + 1] \o ToString(i)

IndexUser(i) ==
  PutItemOf(Stamp(User_new(("id" :> IdOf(i)) @@ ("clerkId" :> "c1")
                             @@ ("email" :> "ann@ex.io")
                             @@ ("kycStatus" :> (IF i % 2 = 1 THEN "APPROVED"
                                                 ELSE "PENDING")), "g1"), 0, 0))

OtherUser ==
  PutItemOf(Stamp(User_new(("id" :> "o1") @@ ("clerkId" :> "zz")
                             @@ ("email" :> "bob@ex.io"), "g1"), 0, 0))

TableOf(items) ==
  [k \in {KeyOf(it) : it \in items} |-> CHOOSE it \in items : KeyOf(it) = k]

QueryInit ==
  /\ table \in {TableOf({IndexUser(i) : i \in S} \cup {OtherUser}) :
                  S \in SUBSET (1..MaxIndex)}
  /\ clock = 0
  /\ pc = [p \in Procs |-> "idle"]
  /\ ent = [p \in Procs |-> NoItem]
  /\ req = [p \in Procs |-> NoReq]
  /\ res = [p \in Procs |-> ""]
  /\ hist = << >>
  /\ nops = 0
  /\ idx \in [IndexName : {"ExternalIdIndex"},
              hash : {KEY_BUILDERS_userByClerkId("c1")["ExternalIdKey"]},
              filter : {Absent, Some("APPROVED")}]
  /\ qry = NoQuery
  /\ pager = [state |-> "new", items |-> << >>, nextToken |-> Absent,
              lek |-> Absent]
  /\ allp \in [state : {"new"}, allItems : {<< >>}, nextToken : {Absent},
               lek : {Absent}, result : {<< >>},
               maxItems : {Absent} \cup {Some(n) : n \in 0..MaxIndex}]
  /\ cnt = [state |-> "new", count |-> 0, nextToken |-> Absent, pages |-> 0]
  /\ tok = [state |-> "new", token |-> "", error |-> "", sent |-> FALSE,
            restarted |-> FALSE, items |-> << >>]
  /\ call = NoCall
  /\ resolverCache = << >>
  /\ evt = << >>

QueryNext ==
  \/ Pager_queryByIndex
  \/ Pager_page
  \/ BaseRepository_queryAllPages
  \/ BaseRepository_queryAllPages_page
  \/ BaseRepository_countByIndex
  \/ BaseRepository_countByIndex_page
  \/ BaseRepository_queryByIndex
  \/ BaseRepository_queryByIndex_page

SpecQuery == QueryInit /\ [][QueryNext]_vars

----------------------------------------------------------------------------
(* Specification of two concurrent creates: both callers hold a valid       *)
(* entity of the same id, the key holds no row, and each caller calls       *)
(* create once.  The callers' steps interleave in every order.              *)

RaceInputs ==
  {d \in UserInputs : d["id"] = "u1" /\ User_validate(User_new(d, "g1"))}

RaceInit ==
  /\ table = << >>
  /\ clock = 0
  /\ pc = [p \in Procs |-> "idle"]
  /\ ent \in [Procs -> {User_new(d, "g1") : d \in RaceInputs}]
  /\ req = [p \in Procs |-> NoReq]
  /\ res = [p \in Procs |-> ""]
  /\ hist = << >>
  /\ nops = 0
  /\ QueryIdle

RaceCreate(p) == res[p] = "" /\ BaseEntity_create(p)

RaceNext ==
  \E p \in Procs :
    \/ RaceCreate(p)
    \/ BaseEntity_create_reply(p)

SpecRace == RaceInit /\ [][RaceNext]_vars

BothDone == \A p \in Procs : pc[p] = "idle" /\ res[p] # ""

\* C2: when both concurrent creates of one id have ended, whatever the
\* interleaving, exactly one has succeeded and the other has ended with the
\* "already exists" conflict, and the table holds at the key the item the
\* successful caller wrote (and nothing else).
C2_ExactlyOneCreateWins ==
  BothDone
    => \E w \in Procs :
         /\ res[w] = Ok
         /\ \A p \in Procs \ {w} : res[p] = AlreadyExists
         /\ table = (KeyOf(PutItemOf(ent[w])) :> PutItemOf(ent[w]))

\* both creates have ended, the entities differ, and the create that began
\* first (it read the earlier time) lost to the one that began later
C2_Witness ==
  /\ BothDone
  /\ \E w, l \in Procs :
       /\ res[w] = Ok /\ res[l] = AlreadyExists
       /\ ent[l]["clerkId"] # ent[w]["clerkId"]
       /\ ent[l]["createdAt"] < ent[w]["createdAt"]

----------------------------------------------------------------------------
(* Properties of the single-item operations, stated on the last completed  *)
(* operation (hist[1]) and the one before it (hist[2]).                    *)

Last == hist[1]
Prev == hist[2]

\* C1: a create on a key that already holds a row fails with the "already
\* exists" error (the conflict kind: it is raised for a failed precondition
\* and for nothing else) and leaves the table as it was: the row at the key
\* has the same attributes, createdAt and updatedAt as before, and so has
\* every other row.
C1_CreateOnExistingRowConflicts ==
  (Len(hist) > 0 /\ Last.op = "create" /\ Last.sent /\ Last.before # NoItem)
    => /\ Last.outcome = AlreadyExists
       /\ Last.after = Last.before
       /\ Last.frame

\* a create of an entity that differs from the stored row has been refused
C1_Witness ==
  /\ Len(hist) > 0 /\ Last.op = "create" /\ Last.sent
  /\ Last.before # NoItem
  /\ PutItemOf(Last.ent1) # Last.before
  /\ Last.ent1["clerkId"] # Last.before["clerkId"]
  /\ Last.outcome = AlreadyExists

\* C3 (as claimed): save, update and batchWrite on a key that holds a row
\* leave the stored createdAt as it was.
C3_CreatedAtNeverChanges ==
  (/\ Len(hist) > 0 /\ Last.op \in {"save", "update", "batchWrite"}
   /\ Last.before # NoItem /\ Last.after # NoItem)
    => /\ "createdAt" \in DOMAIN Last.after
       /\ Last.after["createdAt"] = Last.before["createdAt"]

\* the attributes of both updates, with the values given
BothApplied(first, second, row) ==
  \A i \in 1..Len(first), j \in 1..Len(second) :
    /\ first[i].def => (first[i].k \in DOMAIN row /\ row[first[i].k] = first[i].v)
    /\ second[j].def => (second[j].k \in DOMAIN row /\ row[second[j].k] = second[j].v)

\* two successive successful updates of one stored row, naming distinct
\* attributes
TwoUpdates ==
  /\ Len(hist) >= 2
  /\ Last.op = "update" /\ Prev.op = "update"
  /\ Last.key = Prev.key /\ Prev.existed
  /\ Last.outcome = Ok /\ Prev.outcome = Ok
  /\ Named(Last.updates) \cap Named(Prev.updates) = {}

\* C4 (as claimed): after two updates of distinct attributes the row holds
\* both and its updatedAt is strictly greater than after the first update.
C4_UpdatedAtStrictlyGreater ==
  TwoUpdates
    => /\ BothApplied(Prev.updates, Last.updates, Last.after)
       /\ Last.after["updatedAt"] > Prev.after["updatedAt"]

\* C4 (amended): after two updates of distinct attributes the row holds both,
\* and the updatedAt stored by each update is the clock reading of that
\* update: it is greater after the second update exactly when the second
\* update read a later time than the first, and equal when both read the
\* same millisecond.
C4_UpdatedAtIsClockReading ==
  TwoUpdates
    => /\ BothApplied(Prev.updates, Last.updates, Last.after)
       /\ Last.after["updatedAt"] = Last.now
       /\ Prev.after["updatedAt"] = Prev.now
       /\ (Last.after["updatedAt"] > Prev.after["updatedAt"]) <=> (Last.now > Prev.now)

\* two updates of distinct attributes, the second at a later time
C4_Witness ==
  /\ TwoUpdates
  /\ Named(Last.updates) # {} /\ Named(Prev.updates) # {}
  /\ Last.now > Prev.now

\* C5: a successful update of a stored row changes only the attributes its
\* argument names and updatedAt: every other attribute of the row, and every
\* other row, is as before; and after any successful update the in-memory
\* entity is the entity of the merged stored row.
C5_UpdateChangesOnlyNamed ==
  (Len(hist) > 0 /\ Last.op = "update" /\ Last.outcome = Ok)
    => /\ Last.ent1 = User_fromItem(Last.after)
       /\ Last.frame
       /\ Last.before # NoItem =>
            LET touched == Named(Last.updates) \cup {"updatedAt"}
            IN /\ DOMAIN Last.after = (DOMAIN Last.before) \cup touched
               /\ \A a \in (DOMAIN Last.before) \ touched :
                     Last.after[a] = Last.before[a]
               /\ \A i \in 1..Len(Last.updates) :
                     Last.updates[i].def
                       => Last.after[Last.updates[i].k] = Last.updates[i].v

\* an update has changed an attribute of a stored row that holds others
C5_Witness ==
  /\ Len(hist) > 0 /\ Last.op = "update" /\ Last.outcome = Ok
  /\ Last.before # NoItem
  /\ \E a \in Named(Last.updates) :
        a \notin DOMAIN Last.before \/ Last.after[a] # Last.before[a]
  /\ (DOMAIN Last.before) \ (Named(Last.updates) \cup {"updatedAt"}) # {}

\* C6 (as claimed): create, save and update validate before writing: when
\* the entity, or the entity an update produces, fails validation, no
\* request is sent to the engine, the table is unchanged and the operation
\* ends with the validation error.
C6_ValidateBeforeEveryWrite ==
  (/\ Len(hist) > 0 /\ Last.op \in {"create", "save", "update"}
   /\ (~Last.valid0 \/ (Last.op = "update" /\ ~User_validate(Last.ent1))))
    => /\ ~Last.sent
       /\ Last.outcome = ValidationFailed
       /\ Last.after = Last.before /\ Last.frame

\* C7 (as claimed): a row appears at a key that had none only through create.
C7_OnlyCreateIntroducesRows ==
  (Len(hist) > 0 /\ Last.before = NoItem /\ Last.after # NoItem)
    => Last.op = "create"

\* C7 (amended): a row appears at a key that had none only through create,
\* save, update or batchWrite (never through get or delete), and each of
\* these does bring the row into existence: a create, a save or an update
\* that reaches the engine for an absent key succeeds and leaves a row, and
\* so does every put of a batchWrite that the engine processes.
C7_WritesIntroduceRows ==
  Len(hist) > 0
    => /\ (Last.before = NoItem /\ Last.after # NoItem)
            => Last.op \in {"create", "save", "update", "batchWrite"}
       /\ (Last.op \in {"create", "save", "update"} /\ Last.sent
             /\ Last.before = NoItem)
            => (Last.outcome = Ok /\ Last.after # NoItem)
       /\ (Last.op = "batchWrite" /\ Last.outcome = Ok) => Last.after # NoItem
       /\ Last.op \in {"get", "delete"} => Last.after = NoItem \/ Last.after = Last.before

\* a save has brought a row into existence
C7_Witness ==
  /\ Len(hist) > 0 /\ Last.op = "save" /\ Last.sent
  /\ Last.before = NoItem /\ Last.after # NoItem

----------------------------------------------------------------------------
(* Claims about the queries, under SpecQuery.                               *)

\* the items of the index partition that pass the filter, in the order of
\* queryByIndex's default direction, as entities
ExpectedItems ==
  LET Pass(it) == Passes(it, idx.filter)
      seen == SelectSeq(Reverse(IndexItems(table, idx.hash)), Pass)
  IN [i \in 1..Len(seen) |-> User_fromItem(seen[i])]

\* C8: following continuation tokens page by page with page size 1 until the
\* token is absent yields exactly the items, in exactly the order, of one
\* queryAllPages call whose maxItems is at least the number of matching
\* items, on an unchanged index: both reads end, neither fails, and both
\* return every matching item of the index once, in the index's order.
C8_PagedReadEqualsUnpagedRead ==
  /\ pager.state # "failed" /\ allp.state # "failed"
  /\ pager.state = "done" => pager.items = ExpectedItems
  /\ (allp.state = "done" /\ EffectiveMaxItems(allp.maxItems) >= Len(ExpectedItems))
       => allp.result = ExpectedItems
  /\ (/\ pager.state = "done" /\ allp.state = "done"
      /\ EffectiveMaxItems(allp.maxItems) >= Len(ExpectedItems))
       => pager.items = allp.result

\* both reads ended on an index of several matching items read through a
\* filter, the paged one over more pages than it returned items
C8_Witness ==
  /\ pager.state = "done" /\ allp.state = "done"
  /\ idx.filter # Absent
  /\ Len(IndexItems(table, idx.hash)) > Len(pager.items)
  /\ Len(pager.items) >= 2
  /\ allp.maxItems = Some(Len(pager.items))
  /\ allp.result = pager.items

\* C9: a continuation token that createNextToken did not produce for the
\* query (the empty string, text that is not base64, a payload that is not
\* JSON, the token of another query) makes queryByIndex fail with the
\* token-decode error; it never causes a query that starts from the
\* beginning of the index.
C9_UntrustedTokenFailsDistinctly ==
  tok.state # "new" =>
    /\ ~tok.restarted
    /\ tok.state = "done" => tok.error = "TokenDecodeError"

\* C10: decoding is the exact inverse of encoding: the ExclusiveStartKey that
\* parsePaginationParams derives from the token createNextToken made of a
\* LastEvaluatedKey is that LastEvaluatedKey, decoding such a token never
\* fails, and the token is absent exactly when the LastEvaluatedKey is.
C10_DecodeInvertsEncode ==
  /\ qry.who = "pager" => qry.ExclusiveStartKey = pager.lek
  /\ qry.who = "allp" => qry.ExclusiveStartKey = allp.lek
  /\ pager.state # "failed" /\ allp.state # "failed"
  /\ pager.nextToken = Absent <=> pager.lek = Absent
  /\ allp.nextToken = Absent <=> allp.lek = Absent

\* a query resumes from a LastEvaluatedKey that lists PK first and whose
\* values hold a quotation mark, which JSON.stringify escapes
C10_Witness ==
  /\ qry.who = "pager"
  /\ qry.ExclusiveStartKey # Absent
  /\ qry.ExclusiveStartKey = pager.lek
  /\ qry.ExclusiveStartKey[1][1] = <<"PK", "USER#" \o IdOf(2)>>

----------------------------------------------------------------------------
(* UserRepository lookups by secondary index: getByClerkId, getByEmail,     *)
(* getByClkkTag (one queryByIndex with limit 1, items[0] or null) and       *)
(* getByKycStatus (one page of TypeStatusIndex).                            *)

\* the hash key attribute of each global secondary index of the table
IndexHashKey ==
  ("ExternalIdIndex" :> "ExternalIdKey") @@ ("EmailIndex" :> "EmailKey")
    @@ ("ClkkTagIndex" :> "ClkkTagKey") @@ ("TypeStatusIndex" :> "TypeStatusKey")

\* the rows that are in the partition of the index: they carry the hash key
\* attribute with the value queried
IndexPartition(tbl, IndexName, value) ==
  {tbl[k] : k \in {j \in DOMAIN tbl :
                     /\ IndexHashKey[IndexName] \in DOMAIN tbl[j]
                     /\ tbl[j][IndexHashKey[IndexName]] = value}}

\* Query without filter and start key: the first Limit items of the
\* partition, in an order of the engine's
DynamoQueryIndex(tbl, q) ==
  LET part == IndexPartition(tbl, q.IndexName, q.value)
      n == Cardinality(part)
  IN {SubSeq(f, 1, Min(q.Limit, n)) :
        f \in {g \in [1..n -> part] : \A i, j \in 1..n : g[i] = g[j] => i = j}}

\* a lookup up to the await of queryByIndex: limit 0 stands for no
\* pagination options
LookupSend(op, IndexName, value, input, limit) ==
  /\ pc[1] = "idle"
  /\ call = NoCall \/ call.returned
  /\ call' = [NoCall EXCEPT
                !.op = op, !.input = <<input>>,
                !.requests =
                  << [IndexName |-> IndexName, value |-> value,
                      Limit |-> parsePaginationParams(
                                  [limit |-> limit, nextToken |-> Absent]).Limit] >>]
  /\ UNCHANGED storeVars /\ UNCHANGED <<idx, qry, pager, allp, cnt, tok, resolverCache, evt>>

ClerkIdQueries == {"c1", "c2", "c9"}
EmailQueries == {"Ann@Ex.io", "ann@ex.io", "ANN@EX.IO", "ANN@NEW.IO", "zed@ex.io"}
ClkkTagQueries == {"AnnLee", "annlee", "ANNLEE", "nobody"}

UserRepository_getByClerkId ==
  \E clerkId \in ClerkIdQueries :
    LookupSend("getByClerkId", "ExternalIdIndex",
               KEY_BUILDERS_userByClerkId(clerkId)["ExternalIdKey"], clerkId, 1)

UserRepository_getByEmail ==
  \E email \in EmailQueries :
    LookupSend("getByEmail", "EmailIndex",
               KEY_BUILDERS_userByEmail(email)["EmailKey"], email, 1)

UserRepository_getByClkkTag ==
  \E clkkTag \in ClkkTagQueries :
    LookupSend("getByClkkTag", "ClkkTagIndex",
               KEY_BUILDERS_userByClkkTag(clkkTag)["ClkkTagKey"], clkkTag, 1)

UserRepository_getByKycStatus ==
  \E status \in KYC_STATUS :
    LookupSend("getByKycStatus", "TypeStatusIndex", "USER#KYC#" \o status,
               status, 0)

\* the engine's answer and the code after the await: getByKycStatus returns
\* the items of the page, the others items[0] or null (an empty result)
UserRepository_lookup_reply ==
  /\ call.op \in {"getByClerkId", "getByEmail", "getByClkkTag", "getByKycStatus"}
  /\ ~call.returned
  /\ \E Items \in DynamoQueryIndex(table, call.requests[1]) :
       LET items == [i \in 1..Len(Items) |-> User_fromItem(Items[i])]
       IN call' = [call EXCEPT
                     !.result = IF call.op = "getByKycStatus" THEN items
                                ELSE SubSeq(items, 1, Min(1, Len(items))),
                     !.returned = TRUE]
  /\ UNCHANGED storeVars /\ UNCHANGED <<idx, qry, pager, allp, cnt, tok, resolverCache, evt>>

\* the users of the lookups: one holds its email and tag in mixed case, and
\* comes a second time with another email (the same user after its email
\* has changed)
LookupInputs ==
  { ("id" :> "u1") @@ ("clerkId" :> "c1") @@ ("email" :> "Ann@Ex.io")
      @@ ("clkkTag" :> "AnnLee"),
    ("id" :> "u1") @@ ("clerkId" :> "c1") @@ ("email" :> "Ann@New.io")
      @@ ("clkkTag" :> "AnnLee"),
    ("id" :> "u2") @@ ("clerkId" :> "c2") @@ ("email" :> "bob@ex.io")
      @@ ("kycStatus" :> "APPROVED") }

\* every row of the table was written by create or save
LookupInit ==
  /\ table \in {TableOf({PutItemOf(Stamp(User_new(d, "g1"), 0, 0)) : d \in S}) :
                  S \in {T \in SUBSET LookupInputs :
                           \A a, b \in T : a["id"] = b["id"] => a = b}}
  /\ clock = 0
  /\ pc = [p \in Procs |-> "idle"]
  /\ ent = [p \in Procs |-> NoItem]
  /\ req = [p \in Procs |-> NoReq]
  /\ res = [p \in Procs |-> ""]
  /\ hist = << >>
  /\ nops = 0
  /\ QueryIdle

\* new User(data), before any lookup
Lookup_new ==
  /\ pc[1] = "idle" /\ call = NoCall
  /\ nops < MaxOps
  /\ nops' = nops + 1
  /\ \E d \in LookupInputs : ent' = [ent EXCEPT ![1] = User_new(d, "g1")]
  /\ UNCHANGED <<table, clock, pc, req, res, hist, queryVars>>

Lookup_save == call = NoCall /\ BaseEntity_save(1)

LookupNext ==
  \/ Lookup_new
  \/ Lookup_save
  \/ BaseEntity_save_reply(1)
  \/ UserRepository_getByClerkId
  \/ UserRepository_getByEmail
  \/ UserRepository_getByClkkTag
  \/ UserRepository_getByKycStatus
  \/ UserRepository_lookup_reply

SpecLookup == LookupInit /\ [][LookupNext]_vars

\* a and b are equal up to the case of their letters
EqualUpToCase(a, b) ==
  /\ Len(a) = Len(b)
  /\ \A i \in 1..Len(a) :
       LET x == CharAt(a, i)
           y == CharAt(b, i)
       IN \/ x = y
          \/ x \in DOMAIN LowerMap /\ LowerMap[x] = y
          \/ y \in DOMAIN LowerMap /\ LowerMap[y] = x

\* the stored users whose attribute attr equals v up to letter case
UsersWith(attr, v) ==
  {User_fromItem(table[k]) :
     k \in {j \in DOMAIN table :
              attr \in DOMAIN table[j] /\ EqualUpToCase(table[j][attr], v)}}

Found == {call.result[i] : i \in 1..Len(call.result)}

C17_EveryLookupFindsStoredUser ==
  call.returned =>
    /\ call.op = "getByKycStatus" => UsersWith("kycStatus", call.input[1]) \subseteq Found
    /\ call.op = "getByClerkId" => UsersWith("clerkId", call.input[1]) \subseteq Found
    /\ call.op = "getByEmail" => UsersWith("email", call.input[1]) \subseteq Found
    /\ call.op = "getByClkkTag" => UsersWith("clkkTag", call.input[1]) \subseteq Found

----------------------------------------------------------------------------
(* Specification of the item round trip: a valid user is projected with     *)
(* toItem alone, or into the item that create and save put (primary key,    *)
(* toItem, createdAt, updatedAt), and read back with fromItem.              *)

\* the values an attribute of the user may take; Absent stands for an
\* attribute that is not set
RoundTripChoices ==
  [firstName : {Absent, Some("Bob")},
   clkkTag : {Absent, Some("AnnLee")},
   dateOfBirth : {Absent, Some(""), Some("2000-01-01")},
   profileImageUrl : {Absent, Some(""), Some("https://ex.io/a.png")},
   metadata : {Absent, Some("m")},
   createdAt : {Absent, Some(0)}]

\* the user of a choice: createdAt and updatedAt are set together
RoundTripUser(c) ==
  LET set == {k \in DOMAIN c : c[k] # Absent}
      own == [k \in set |-> c[k][1]]
      base == User_new(("id" :> "u1") @@ ("clerkId" :> "c1")
                         @@ ("email" :> "Ann@Ex.io"), "g1")
  IN Assign(Assign(base, own),
            IF c.createdAt # Absent THEN Obj1("updatedAt", MaxClock) ELSE << >>)

RoundTripInit ==
  /\ table = << >>
  /\ clock = 0
  /\ pc = [p \in Procs |-> "idle"]
  /\ ent \in {[p \in Procs |-> IF p = 1 THEN RoundTripUser(c) ELSE NoItem] :
                c \in {d \in RoundTripChoices : User_validate(RoundTripUser(d))}}
  /\ req = [p \in Procs |-> NoReq]
  /\ res = [p \in Procs |-> ""]
  /\ hist = << >>
  /\ nops = 0
  /\ QueryIdle

\* item = e.toItem()
RoundTrip_toItem ==
  /\ req[1].op = ""
  /\ req' = [req EXCEPT ![1] = [NoReq EXCEPT !.op = "toItem",
                                             !.Item = User_toItem(ent[1])]]
  /\ UNCHANGED <<table, clock, pc, ent, res, hist, nops, queryVars>>

\* the Item of the PutCommand of create and save, for a stamped entity
RoundTrip_putItem ==
  /\ req[1].op = "" /\ "createdAt" \in DOMAIN ent[1]
  /\ req' = [req EXCEPT ![1] = [NoReq EXCEPT !.op = "putItem",
                                             !.Item = PutItemOf(ent[1])]]
  /\ UNCHANGED <<table, clock, pc, ent, res, hist, nops, queryVars>>

\* fromItem(item)
RoundTrip_fromItem ==
  /\ req[1].op # "" /\ call = NoCall
  /\ call' = [NoCall EXCEPT !.op = req[1].op,
                            !.result = << User_fromItem(req[1].Item) >>,
                            !.returned = TRUE]
  /\ UNCHANGED storeVars /\ UNCHANGED <<idx, qry, pager, allp, cnt, tok, resolverCache, evt>>

RoundTripNext ==
  \/ RoundTrip_toItem
  \/ RoundTrip_putItem
  \/ RoundTrip_fromItem

SpecRoundTrip == RoundTripInit /\ [][RoundTripNext]_vars

SetAttributes(e) ==
  Only(e, {k \in DOMAIN e : ~(k \in OptionalFields /\ e[k] = "")})

----------------------------------------------------------------------------
(* Specification of the single-item operations against an engine whose      *)
(* requests may fail with a transient error, and of the resolver's handler  *)
(* (createHandler), which passes what the resolver throws to transformError.*)
(* A behaviour runs single-item operations until a request fails or exists  *)
(* answers; a failed create may then go through the handler.                *)

\* a transient failure of the engine
Transient == "ProvisionedThroughputExceededException"

\* the response of a request that failed
EngineFailure(tbl) == [table |-> tbl, error |-> Transient, Attributes |-> NoItem]

\* what the catch block of an operation throws for an engine error: create
\* replaces the failed condition check, every block rethrows the rest
Rethrown(op, error) ==
  IF op = "create" /\ error = "ConditionalCheckFailedException"
  THEN AlreadyExists ELSE error

\* the request in flight fails: save, create, update, delete and getByKey
\* log the error and throw
BaseEntity_fault(p) ==
  /\ pc[p] = "sent"
  /\ req[p].op \in {"create", "save", "update", "delete", "get"}
  /\ LET out == EngineFailure(table)
         thrown == Rethrown(req[p].op, out.error)
     IN /\ Done(p, IF req[p].op \in {"create", "save"} THEN KeyOf(req[p].Item)
                   ELSE KeyOf(req[p].Key),
                out, thrown, ent[p])
        /\ call' = [NoCall EXCEPT !.op = req[p].op, !.error = out.error,
                                  !.result = <<thrown>>, !.returned = TRUE]
  /\ UNCHANGED <<idx, qry, pager, allp, cnt, tok, resolverCache, evt>>

\* exists() up to the await: a GetCommand that projects PK
BaseEntity_exists(p) ==
  LET now == clock IN
  /\ Start(p, now) /\ ent[p] # NoItem /\ "id" \in DOMAIN ent[p]
  /\ Send(p, [NoReq EXCEPT !.op = "exists", !.Key = User_getPrimaryKey(ent[p]),
                !.ent0 = ent[p], !.now = now], ent[p])

\* return !!result.Item; the catch block logs the error and returns false
ExistsReply(p, out) ==
  LET result == IF out.error # "" THEN "false"
                ELSE IF out.Attributes # NoItem THEN "true" ELSE "false"
  IN /\ Done(p, KeyOf(req[p].Key), out, result, ent[p])
     /\ call' = [NoCall EXCEPT !.op = "exists", !.error = out.error,
                               !.result = <<result>>, !.returned = TRUE]

BaseEntity_exists_reply(p) ==
  /\ pc[p] = "sent" /\ req[p].op = "exists"
  /\ \E out \in {DynamoGet(table, req[p].Key), EngineFailure(table)} :
       ExistsReply(p, out)
  /\ UNCHANGED <<idx, qry, pager, allp, cnt, tok, resolverCache, evt>>

\* the error object of an outcome: its class and its message
ErrorOf(outcome) ==
  IF outcome = AlreadyExists
  THEN [class |-> "Error", message |-> "User with id u1 already exists"]
  ELSE IF outcome = ValidationFailed
  THEN [class |-> "Error", message |-> "User validation failed"]
  ELSE [class |-> outcome, message |-> "The request failed"]

Environments == {"dev", "staging", "prod"}

transformError(error, ENVIRONMENT) ==
  IF error.class = "ValidationError"
  THEN [class |-> "Error", message |-> "Validation Error: " \o error.message]
  ELSE IF error.class = "NotFoundError"
  THEN [class |-> "Error", message |-> "Not Found: " \o error.message]
  ELSE IF error.class = "ConflictError"
  THEN [class |-> "Error", message |-> "Conflict: " \o error.message]
  ELSE IF error.class = "UnauthorizedError"
  THEN [class |-> "Error", message |-> "Unauthorized: " \o error.message]
  ELSE IF ENVIRONMENT = "prod"
  THEN [class |-> "Error", message |-> "An error occurred processing your request"]
  ELSE error

\* the catch block of createHandler around a resolver whose create threw:
\* throw transformError(error)
createHandler_catch(p) ==
  /\ pc[p] = "idle" /\ call.op \in {"", "create"}
  /\ hist # << >> /\ hist[1].op = "create" /\ hist[1].p = p
  /\ res[p] \notin {"", Ok}
  /\ \E ENVIRONMENT \in Environments :
       call' = [NoCall EXCEPT
                  !.op = "createHandler", !.input = <<ENVIRONMENT>>,
                  !.error = res[p],
                  !.result = << transformError(ErrorOf(res[p]), ENVIRONMENT) >>,
                  !.returned = TRUE]
  /\ UNCHANGED storeVars /\ UNCHANGED <<idx, qry, pager, allp, cnt, tok, resolverCache, evt>>

\* the operations start and answer as long as no request has failed
FaultNext ==
  \/ call = NoCall /\ NewUser(1)
  \/ call = NoCall /\ BaseEntity_create(1)
  \/ call = NoCall /\ BaseEntity_create_reply(1)
  \/ call = NoCall /\ BaseEntity_save(1)
  \/ call = NoCall /\ BaseEntity_save_reply(1)
  \/ call = NoCall /\ BaseEntity_update(1)
  \/ call = NoCall /\ BaseEntity_update_reply(1)
  \/ call = NoCall /\ BaseEntity_delete(1)
  \/ call = NoCall /\ BaseEntity_delete_reply(1)
  \/ call = NoCall /\ User_getById(1)
  \/ call = NoCall /\ BaseEntity_getByKey_reply(1)
  \/ call = NoCall /\ BaseEntity_exists(1)
  \/ BaseEntity_exists_reply(1)
  \/ BaseEntity_fault(1)
  \/ createHandler_catch(1)

SpecFault == Init /\ [][FaultNext]_vars

\* C19: when the engine request of a single-item operation (get, create,
\* save, update, delete, exists) fails with a transient error, the operation
\* ends with that error: it never ends with a normal result.
C19_EngineFailureSurfaces ==
  (/\ call.op \in {"get", "create", "save", "update", "delete", "exists"}
   /\ call.returned /\ call.error # "") =>
     /\ res[1] = call.error
     /\ res[1] \notin {Ok, "true", "false"}

\* the error is of the conflict kind: transformError has marked it
IsConflict(error) ==
  Len(error.message) >= 10 /\ SubSeq(error.message, 1, 10) = "Conflict: "

\* C20: a create that failed because the row exists reaches the resolver's
\* caller, through createHandler and transformError, as an error of the
\* conflict kind, in every environment, and never as the error a transient
\* engine failure becomes there.
C20_ConflictStaysDistinct ==
  (call.op = "createHandler" /\ call.returned /\ call.error = AlreadyExists) =>
     /\ IsConflict(call.result[1])
     /\ call.result[1] # transformError(ErrorOf(Transient), call.input[1])

\* C14: queryAllPages never returns more than maxItems items, for any
\* caller-supplied maxItems >= 0, and never more than 1000 when maxItems is
\* not supplied; what it returns is a prefix of the complete result in index
\* order.
C14_AllPagesBoundedByMaxItems ==
  allp.state = "done" =>
    /\ allp.maxItems # Absent => Len(allp.result) <= allp.maxItems[1]
    /\ allp.maxItems = Absent => Len(allp.result) <= DefaultMaxItems
    /\ Len(allp.result) <= Len(ExpectedItems)
    /\ allp.result = SubSeq(ExpectedItems, 1, Len(allp.result))

\* C15: countByIndex returns the number of items that match the key
\* condition and the filter, however the engine pages the query, and that
\* number is the length of what queryAllPages returns for the same arguments
\* when its maxItems does not truncate.
C15_CountIsTotalMatching ==
  /\ cnt.state # "failed"
  /\ cnt.state = "done" =>
       /\ cnt.count = Len(ExpectedItems)
       /\ (allp.state = "done"
             /\ EffectiveMaxItems(allp.maxItems) >= Len(ExpectedItems))
            => cnt.count = Len(allp.result)

\* a count over several responses of the engine, through a filter that
\* drops an item, after a queryAllPages that returned the same items
C15_Witness ==
  /\ cnt.state = "done" /\ allp.state = "done"
  /\ cnt.pages >= 2 /\ cnt.count >= 2
  /\ idx.filter # Absent
  /\ Len(IndexItems(table, idx.hash)) > cnt.count
  /\ allp.maxItems = Absent
  /\ Len(allp.result) = cnt.count

----------------------------------------------------------------------------
(* Specification of the batch operations on long lists: one call per        *)
(* behaviour, of 0..MaxBatch entities or 0..MaxKeys keys, against an engine *)
(* that processes every item of every request.                              *)

MaxBatch == 57
MaxKeys == 120

BatchUser(i) ==
  User_new(("id" :> ("b" \o ToString(i))) @@ ("clerkId" :> ("c" \o ToString(i)))
             @@ ("email" :> ("b" \o ToString(i) \o "@ex.io")), "g1")

BatchUsers(n) == [i \in 1..n |-> BatchUser(i)]

BatchKeys(n) == [i \in 1..n |-> User_getPrimaryKey(BatchUser(i))]

\* the rows a batchWrite of MaxKeys users leaves
BatchTable ==
  TableOf({BatchPutItem(BatchUser(i), MaxClock, MaxClock) : i \in 1..MaxKeys})

BatchInit ==
  /\ table \in {<< >>, BatchTable}
  /\ clock = MaxClock
  /\ pc = [p \in Procs |-> "idle"]
  /\ ent = [p \in Procs |-> NoItem]
  /\ req = [p \in Procs |-> NoReq]
  /\ res = [p \in Procs |-> ""]
  /\ hist = << >>
  /\ nops = 0
  /\ QueryIdle

Batch_write == \E n \in 0..MaxBatch : nops = 0 /\ BatchWriteOf(1, BatchUsers(n))

Batch_put == Dynamo_batchWriteItem(1) /\ hist'[1].outcome = Ok

Batch_get == \E n \in 0..MaxKeys : nops = 0 /\ BatchGetOf(1, BatchKeys(n))

Batch_got == BatchGetReply(1, {})

BatchNext ==
  \/ Batch_write
  \/ Batch_put
  \/ BaseRepository_batchWrite_reply(1)
  \/ Batch_get
  \/ Batch_got

SpecBatch == BatchInit /\ [][BatchNext]_vars

----------------------------------------------------------------------------
(* Claims about the batch operations.                                       *)

\* C11: when batchGet returns, its result holds the item of every requested
\* key that exists in the table: the keys the engine reported unprocessed
\* were requested again and their items fetched.
C11_BatchGetReturnsEveryExistingItem ==
  (call.op = "batchGet" /\ call.returned) =>
    \A i \in 1..Len(call.input) :
      KeyOf(call.input[i]) \in DOMAIN table =>
        \E j \in 1..Len(call.result) :
          call.result[j] = User_fromItem(table[KeyOf(call.input[i])])

\* C12: when batchWrite returns, every input entity was put by the engine or
\* is in the list of unprocessed items the caller gets back.
C12_BatchWriteStoresOrReportsEveryEntity ==
  (call.op = "batchWrite" /\ call.returned) =>
    \A i \in 1..Len(call.input) :
      LET k == KeyOf(User_getPrimaryKey(call.input[i]))
      IN \/ \A j \in 1..Len(call.unprocessed) : call.unprocessed[j] # k
         \/ \E j \in 1..Len(call.result) : call.result[j] = k

\* the requests of a call, one after the other
RECURSIVE Concat(_)
Concat(seqs) == IF seqs = << >> THEN << >> ELSE Head(seqs) \o Concat(Tail(seqs))

\* the request size limit of the running call
ChunkLimit == IF call.op = "batchWrite" THEN 25 ELSE 100

\* get(key): the entity of the stored row, or null
GetOf(e) == DynamoGet(table, User_getPrimaryKey(e)).Attributes

\* C13: with nothing left unprocessed, a batchWrite of n entities issues
\* exactly ceil(n / 25) requests and a batchGet of n keys ceil(n / 100); no
\* request is over the limit, the requests taken together are the input in
\* its order (each element in exactly one request), and after a batchWrite
\* every written entity is retrievable by get.
C13_BatchChunks ==
  /\ \A r \in 1..Len(call.requests) : Len(call.requests[r]) \in 1..ChunkLimit
  /\ call.returned =>
       /\ Len(call.requests) = (Len(call.input) + ChunkLimit - 1) \div ChunkLimit
       /\ call.unprocessed = << >>
       /\ call.op = "batchGet" => Concat(call.requests) = Keys(call.input)
       /\ call.op = "batchWrite" =>
            /\ Concat(call.requests) = EntityKeys(call.input)
            /\ \A i \in 1..Len(call.input) :
                 /\ GetOf(call.input[i]) # NoItem
                 /\ Only(User_fromItem(GetOf(call.input[i])),
                         {"id", "clerkId", "email", "kycStatus"})
                      = call.input[i]

\* a batchWrite of 57 entities has returned after requests of 25, 25 and 7
C13_Witness ==
  /\ call.op = "batchWrite" /\ call.returned
  /\ Len(call.input) = 57
  /\ [r \in 1..Len(call.requests) |-> Len(call.requests[r])] = <<25, 25, 7>>

----------------------------------------------------------------------------
(* BaseRepository.transactWrite: one TransactWriteCommand with the list of  *)
(* operations.  The engine applies the list in one atomic step when every   *)
(* condition holds, and otherwise cancels it; it may also cancel a list     *)
(* whose conditions hold (throttling).  The code rethrows what the engine   *)
(* throws.  A second caller reads rows by id while the call is in flight.   *)

TransactUser(id, clerkId) ==
  PutItemOf(Stamp(User_new(("id" :> id) @@ ("clerkId" :> clerkId)
                             @@ ("email" :> "cyd@ex.io"), "g1"), 0, 0))

TransactPut(item, cond) ==
  [op |-> "Put", Key |-> Only(item, {"PK", "SK"}), Item |-> item, cond |-> cond]

TransactDelete(key) ==
  [op |-> "Delete", Key |-> key, Item |-> NoItem, cond |-> NoCondition]

TransactConditionCheck(key, cond) ==
  [op |-> "ConditionCheck", Key |-> key, Item |-> NoItem, cond |-> cond]

\* the TransactItems lists handed to transactWrite
TransactInputs ==
  { << TransactPut(TransactUser("u2", "c4"), NoCondition),
       TransactPut(TransactUser("u1", "c5"),
                   CONDITION_BUILDERS_attributeNotExists("PK")) >>,
    << TransactConditionCheck(KEY_BUILDERS_user("u1"),
                              CONDITION_BUILDERS_attributeExists("PK")),
       TransactPut(TransactUser("u2", "c4"), NoCondition) >>,
    << TransactDelete(KEY_BUILDERS_user("u1")),
       TransactPut(TransactUser("u2", "c4"),
                   CONDITION_BUILDERS_attributeNotExists("PK")) >> }

\* every condition of the list holds of the table
AllHold(tbl, items) ==
  \A i \in 1..Len(items) : ConditionHolds(tbl, KeyOf(items[i].Key), items[i].cond)

\* the table after every operation of the list has taken effect
RECURSIVE ApplyAll(_, _)
ApplyAll(tbl, items) ==
  IF items = << >> THEN tbl
  ELSE ApplyAll(IF Head(items).op = "Put"
                THEN DynamoPut(tbl, Head(items).Item, NoCondition).table
                ELSE IF Head(items).op = "Delete"
                THEN DynamoDelete(tbl, Head(items).Key).table
                ELSE tbl,
                Tail(items))

\* TransactWriteItems: the outcomes the engine may give
DynamoTransactWrite(tbl, items) ==
  IF AllHold(tbl, items)
  THEN { [table |-> ApplyAll(tbl, items), error |-> "", reason |-> ""],
         [table |-> tbl, error |-> "TransactionCanceledException",
          reason |-> "ThrottlingError"] }
  ELSE { [table |-> tbl, error |-> "TransactionCanceledException",
          reason |-> "ConditionalCheckFailed"] }

TransactWriteOf(p, items) ==
  /\ pc[p] = "idle" /\ call = NoCall
  /\ pc' = [pc EXCEPT ![p] = "sent"]
  /\ req' = [req EXCEPT ![p] = [NoReq EXCEPT !.op = "transactWrite",
                                             !.pending = items]]
  /\ call' = [NoCall EXCEPT !.op = "transactWrite", !.input = items,
                            !.requests = <<table>>]
  /\ UNCHANGED <<table, clock, ent, res, hist, nops, idx, qry, pager, allp, cnt, tok, resolverCache, evt>>

BaseRepository_transactWrite(p) ==
  \E items \in TransactInputs : TransactWriteOf(p, items)

\* the engine's atomic step and the code after the await: the error of the
\* engine is logged and thrown as it is
BaseRepository_transactWrite_reply(p) ==
  /\ pc[p] = "sent" /\ req[p].op = "transactWrite"
  /\ \E out \in DynamoTransactWrite(table, req[p].pending) :
       /\ table' = out.table
       /\ res' = [res EXCEPT ![p] = IF out.error # "" THEN out.error ELSE Ok]
       /\ call' = [call EXCEPT !.error = out.reason, !.returned = TRUE]
  /\ pc' = [pc EXCEPT ![p] = "idle"]
  /\ req' = [req EXCEPT ![p] = NoReq]
  /\ UNCHANGED <<clock, ent, hist, nops, idx, qry, pager, allp, cnt, tok, resolverCache, evt>>

TransactNext ==
  \/ BaseRepository_transactWrite(1)
  \/ BaseRepository_transactWrite_reply(1)
  \/ User_getById(2)
  \/ BaseEntity_getByKey_reply(2)

SpecTransact == Init /\ [][TransactNext]_vars

\* the table when the call was made, and what the reader may find at an id
TableBefore == call.requests[1]
TableAfter == ApplyAll(TableBefore, call.input)

\* C21: transactWrite applies its list all or nothing: the table is at any
\* moment the table before the call or the table with every operation
\* applied, so that what a concurrent reader loads is a row of one of the
\* two; and when the precondition of an operation fails the table is left
\* as it was and the call fails with ConflictError.
C21_TransactWriteAllOrNothing ==
  call.op = "transactWrite" =>
    /\ table \in {TableBefore, TableAfter}
    /\ ent[2] # NoItem =>
         \E T \in {TableBefore, TableAfter} :
           /\ KeyOf(User_getPrimaryKey(ent[2])) \in DOMAIN T
           /\ ent[2] = User_fromItem(T[KeyOf(User_getPrimaryKey(ent[2]))])
    /\ (call.returned /\ ~AllHold(TableBefore, call.input)) =>
         /\ table = TableBefore
         /\ res[1] = "ConflictError"

----------------------------------------------------------------------------
(* Specification of the order of query results: a client reads the index    *)
(* partition page by page through queryByIndex in the direction and with    *)
(* the page size it chooses, handing back each nextToken, or one            *)
(* queryAllPages call runs (it has no direction option: the default).       *)

PageSizes == {1, 2}

Directions == {Absent, Some(TRUE), Some(FALSE)}

\* the token the client holds: the nextToken of the last page it received
HeldToken ==
  IF call.requests = << >> THEN Absent
  ELSE call.requests[Len(call.requests)].nextToken

Ordered_send(q, forward, limit) ==
  IF q.error # ""
  THEN /\ call' = [call EXCEPT !.op = "queryByIndex", !.error = q.error,
                               !.returned = TRUE]
       /\ qry' = qry
  ELSE /\ call' = [call EXCEPT !.op = "queryByIndex",
                               !.input = <<forward, limit>>]
       /\ qry' = q

\* queryByIndex(index, keyCondition, {pagination: {limit, nextToken},
\* scanIndexForward}) up to the await
Ordered_queryByIndex ==
  /\ qry = NoQuery /\ ~call.returned
  /\ \/ call = NoCall /\ Apart({pager, allp, cnt, tok})
     \/ call.op = "queryByIndex"
  /\ \E forward \in (IF call = NoCall THEN Directions ELSE {call.input[1]}),
        limit \in (IF call = NoCall THEN PageSizes ELSE {call.input[2]}) :
       Ordered_send(queryByIndex_params("client", idx,
                      [pagination |-> [limit |-> limit, nextToken |-> HeldToken],
                       scanIndexForward |-> forward]),
                    forward, limit)
  /\ UNCHANGED storeVars /\ UNCHANGED <<idx, pager, allp, cnt, tok, resolverCache, evt>>

\* queryByIndex after the await: the page goes to the client, which stops
\* when the page has no nextToken
Ordered_receive(out, r) ==
  call' = IF r.error # "" THEN [call EXCEPT !.error = r.error, !.returned = TRUE]
          ELSE [call EXCEPT
                  !.requests = Append(@, [Limit |-> qry.Limit,
                                          items |-> r.items,
                                          nextToken |-> r.nextToken,
                                          LastEvaluatedKey |-> out.LastEvaluatedKey]),
                  !.result = @ \o r.items,
                  !.returned = (r.nextToken = Absent)]

Ordered_page ==
  /\ qry.who = "client"
  /\ \E out \in QueryOutcomes : Ordered_receive(out, queryByIndex_result(out))
  /\ qry' = NoQuery
  /\ UNCHANGED storeVars /\ UNCHANGED <<idx, pager, allp, cnt, tok, resolverCache, evt>>

AllPages_alone == call = NoCall /\ BaseRepository_queryAllPages

OrderNext ==
  \/ Ordered_queryByIndex
  \/ Ordered_page
  \/ AllPages_alone
  \/ BaseRepository_queryAllPages_page

SpecOrder == QueryInit /\ [][OrderNext]_vars

\* the sort key of the index, of an entity
SortKeyOf(e) == User_getPrimaryKey(e)

\* the sequence of entities is in ascending (forward) or descending index
\* order
InOrder(items, forward) ==
  \A i \in 1..(Len(items) - 1) :
    IF forward THEN IndexKeyLess(SortKeyOf(items[i]), SortKeyOf(items[i + 1]))
    ELSE IndexKeyLess(SortKeyOf(items[i + 1]), SortKeyOf(items[i]))

\* C22: the items of a queryByIndex page, and of the pages reached through
\* the continuation tokens of the query taken together, are in the sort-key
\* order requested, descending when none is requested; the items
\* queryAllPages collects and returns are in descending order.
C22_PagesKeepRequestedOrder ==
  /\ call.op = "queryByIndex" /\ call.input # << >> =>
       InOrder(call.result, call.input[1] = Some(TRUE))
  /\ InOrder(allp.allItems, FALSE)
  /\ InOrder(allp.result, FALSE)

\* an ascending read of three items has ended after several pages
C22_Witness ==
  /\ call.op = "queryByIndex" /\ call.returned /\ call.error = ""
  /\ call.input[1] = Some(TRUE)
  /\ Len(call.requests) >= 2
  /\ Len(call.result) = 3

\* the pages the client has received
Pages == IF call.op = "queryByIndex" THEN call.requests ELSE << >>

\* C23: a queryByIndex call returns at most one page, of no more items than
\* the limit, and its nextToken is absent whenever no further page exists: a
\* nextToken is returned exactly when the engine reported a last-position
\* marker (LastEvaluatedKey), an absent marker is never encoded as a token,
\* and when the token is absent every matching item has been returned.
C23_TokenOnlyWithMarker ==
  /\ \A i \in 1..Len(Pages) :
       /\ Len(Pages[i].items) <= Pages[i].Limit
       /\ Pages[i].nextToken = Absent <=> Pages[i].LastEvaluatedKey = Absent
       /\ Pages[i].nextToken # Absent =>
            /\ TokenTruthy(Pages[i].nextToken)
            /\ i < Len(Pages) \/ ~call.returned
  /\ (call.op = "queryByIndex" /\ call.returned /\ call.error = "") =>
       /\ Pages[Len(Pages)].nextToken = Absent
       /\ Len(call.result) = Len(ExpectedItems)

\* a read has ended on a page without token, after a page that held no item
\* and yet came with a token (every item evaluated was filtered out)
C23_Witness ==
  /\ call.op = "queryByIndex" /\ call.returned /\ call.error = ""
  /\ Len(Pages) >= 2
  /\ \E i \in 1..(Len(Pages) - 1) :
       Pages[i].items = << >> /\ Pages[i].nextToken # Absent
  /\ Len(call.result) >= 1

----------------------------------------------------------------------------
(* Specification of one queryAllPages call that runs to its end: the loop   *)
(* takes its next turn whenever it can, and every request is answered.      *)

AllPagesNext ==
  \/ BaseRepository_queryAllPages
  \/ BaseRepository_queryAllPages_page

\* a turn of the loop is pending: a request is to be sent or to be answered
AllPages_pending ==
  \/ qry.who = "allp"
  \/ /\ qry = NoQuery
     /\ \/ allp.state = "new" /\ Apart({cnt, tok})
        \/ allp.state = "looping"

\* Weak fairness of the turns of the loop, WF_vars(AllPagesNext) written out
\* as []<>~ENABLED <<A>>_vars \/ []<><<A>>_vars: a turn is enabled exactly
\* when one is pending (the guards of the two actions; what follows a guard
\* is defined for every value), and every step of a pending call is a turn.
\* The engine answers every request and the await resumes the loop.
AllPages_fair ==
  \/ []<>(~AllPages_pending)
  \/ []<><<AllPages_pending>>_vars

SpecAllPages ==
  /\ QueryInit
  /\ [][AllPagesNext]_vars
  /\ AllPages_fair

\* the limit of the page queryAllPages asks for on its next turn
NextPageLimit ==
  Min(PageLimit, EffectiveMaxItems(allp.maxItems) - Len(allp.allItems))

----------------------------------------------------------------------------
(* The primary key of an entity object over its lifetime.                   *)

\* getPrimaryKey() of an entity object: `USER#${this.id}`, an undefined id
\* printing as "undefined"
PrimaryKeyOf(e) ==
  KEY_BUILDERS_user(IF "id" \in DOMAIN e THEN e["id"] ELSE "undefined")

LifetimeOps == {"create", "save", "update", "delete"}

\* process p takes a step of create, save, update or delete on its entity
LifetimeStep(p) ==
  /\ ent[p] # NoItem
  /\ pc'[p] # pc[p]
  /\ (IF pc[p] = "sent" THEN req[p].op ELSE req'[p].op) \in LifetimeOps

\* C25: the primary key of an entity is a function of its id only and stays
\* the same under every create, save, update and delete on the entity
\* object, an update whose target row does not exist included.
C25_PrimaryKeyStable ==
  [][\A p \in Procs :
       LifetimeStep(p) =>
         /\ ent'[p] # NoItem
         /\ PrimaryKeyOf(ent'[p]) = PrimaryKeyOf(ent[p])]_vars

----------------------------------------------------------------------------
(* delete and get by key, read off the last two completed operations.       *)

\* the last operation is a delete that followed a delete of the same key
DeletedTwice ==
  /\ Len(hist) = 2
  /\ Last.op = "delete" /\ Prev.op = "delete"
  /\ Prev.key = Last.key

\* C26: a delete completes without error whether or not the row exists and
\* leaves no row at the key and every other row as it was; on an absent key
\* it leaves the store unchanged, so that a second delete changes nothing the
\* first has not; a get of the key that follows a delete finds nothing.
C26_DeleteIdempotent ==
  /\ (Len(hist) > 0 /\ Last.op = "delete") =>
       /\ Last.outcome = Ok
       /\ Last.after = NoItem
       /\ Last.frame
       /\ Stored(table, Last.key) = NoItem
  /\ DeletedTwice =>
       /\ Last.before = NoItem
       /\ Last.after = Prev.after
  /\ (Len(hist) = 2 /\ Last.op = "get" /\ Prev.op = "delete"
        /\ Prev.key = Last.key) =>
       /\ Last.outcome = Ok
       /\ Last.ent1 = NoItem

\* a stored row was deleted, and then deleted again
C26_Witness ==
  DeletedTwice /\ Prev.existed /\ Last.outcome = Ok

\* C27: a get by key ends without error and leaves the store as it was; it
\* returns null when no row is stored at the key, and otherwise an entity
\* that has exactly the entity fields of the stored row, with their values.
C27_GetAbsentIsNull ==
  (Len(hist) > 0 /\ Last.op = "get") =>
    /\ Last.outcome = Ok
    /\ Last.after = Last.before
    /\ Last.frame
    /\ Last.before = NoItem => Last.ent1 = NoItem
    /\ Last.before # NoItem =>
         /\ Last.ent1 # NoItem
         /\ DOMAIN Last.ent1 = (DOMAIN Last.before) \cap FromItemFields
         /\ \A f \in DOMAIN Last.ent1 : Last.ent1[f] = Last.before[f]

\* a get of a key that holds no row, while another key does
C27_Witness ==
  /\ Len(hist) > 0 /\ Last.op = "get"
  /\ Last.before = NoItem /\ Last.ent1 = NoItem
  /\ table # << >>

----------------------------------------------------------------------------
(* UserRepository.generateUniqueClkkTag: draw a candidate, probe it with    *)
(* clkkTagExists (getByClkkTag: one query of ClkkTagIndex with limit 1),    *)
(* return it when the probe finds no user, give up after maxAttempts taken  *)
(* candidates.  call.requests holds the probes, each with its answer once   *)
(* it has come; another client saves a tagged user meanwhile.               *)

maxAttempts == 10

\* the values Math.floor(Math.random() * 9999) takes in the model
Randoms == {1, 2}

\* the characters the replace of generateClkkTag keeps
TagChars == CharSet(LowerLetters) \cup CharSet(Digits)

\* str.replace(/[^a-z0-9]/g, '')
RECURSIVE StripNonAlnum(_)
StripNonAlnum(str) ==
  IF Len(str) = 0 THEN ""
  ELSE (IF CharAt(str, 1) \in TagChars THEN CharAt(str, 1) ELSE "")
         \o StripNonAlnum(SubSeq(str, 2, Len(str)))

\* str.padStart(4, '0')
RECURSIVE padStart4(_)
padStart4(str) == IF Len(str) >= 4 THEN str ELSE padStart4("0" \o str)

\* generateClkkTag(firstName, lastName), random the number drawn
generateClkkTag(firstName, lastName, random) ==
  StripNonAlnum(toLowerCase(firstName)) \o StripNonAlnum(toLowerCase(lastName))
    \o padStart4(ToString(random))

\* a probe not yet answered
Probe(tag) ==
  [tag |-> tag, IndexName |-> "ClkkTagIndex",
   value |-> KEY_BUILDERS_userByClkkTag(tag)["ClkkTagKey"],
   Limit |-> parsePaginationParams([limit |-> 1, nextToken |-> Absent]).Limit,
   answered |-> FALSE, exists |-> FALSE]

NameInputs == { <<"An-n", "O'Lee">> }

\* the loop from its head to the await of clkkTagExists
Generate_probe(c, name) ==
  \E random \in Randoms :
    call' = [c EXCEPT !.requests =
               Append(c.requests, Probe(generateClkkTag(name[1], name[2], random)))]

UserRepository_generateUniqueClkkTag ==
  /\ call = NoCall
  /\ \E name \in NameInputs :
       Generate_probe([NoCall EXCEPT !.op = "generateUniqueClkkTag",
                                     !.input = name], name)
  /\ UNCHANGED storeVars /\ UNCHANGED <<idx, qry, pager, allp, cnt, tok, resolverCache, evt>>

\* faulty variant: the count of attempts is not checked against maxAttempts
Generate_answered_unbounded(c, exists) ==
  IF ~exists
  THEN call' = [c EXCEPT !.result = <<c.requests[Len(c.requests)].tag>>,
                         !.returned = TRUE]
  ELSE Generate_probe(c, c.input)

\* the code after the await: return tag, or attempts++ and the next turn of
\* the loop, or the throw after it; attempts is the number of probes
Generate_answered(c, exists) ==
  IF ~exists
  THEN call' = [c EXCEPT !.result = <<c.requests[Len(c.requests)].tag>>,
                         !.returned = TRUE]
  ELSE IF Len(c.requests) < maxAttempts
  THEN Generate_probe(c, c.input)
  ELSE call' = [c EXCEPT
                  !.error = "Error: Failed to generate unique CLKK tag after maximum attempts",
                  !.returned = TRUE]

\* the engine answers the probe in flight: user !== null
UserRepository_generateUniqueClkkTag_reply ==
  /\ call.op = "generateUniqueClkkTag" /\ ~call.returned
  /\ \E Items \in DynamoQueryIndex(table, call.requests[Len(call.requests)]) :
       Generate_answered(
         [call EXCEPT !.requests[Len(call.requests)] =
            [@ EXCEPT !.answered = TRUE, !.exists = Len(Items) > 0]],
         Len(Items) > 0)
  /\ UNCHANGED storeVars /\ UNCHANGED <<idx, qry, pager, allp, cnt, tok, resolverCache, evt>>

\* users that hold the tags the generator draws
TagUsers ==
  { ("id" :> "t1") @@ ("clerkId" :> "c1") @@ ("email" :> "ann@ex.io")
      @@ ("clkkTag" :> "AnnOLee0001"),
    ("id" :> "t2") @@ ("clerkId" :> "c2") @@ ("email" :> "lee@ex.io")
      @@ ("clkkTag" :> "annlee0002") }

\* the user another client saves while the generator runs
OtherTagUser ==
  ("id" :> "t3") @@ ("clerkId" :> "c3") @@ ("email" :> "ann@new.io")
    @@ ("clkkTag" :> "annolee0002")

\* some of the users are stored
TagInit ==
  /\ table \in {TableOf({PutItemOf(Stamp(User_new(d, "g1"), 0, 0)) : d \in S}) :
                  S \in SUBSET TagUsers}
  /\ clock = 0
  /\ pc = [p \in Procs |-> "idle"]
  /\ ent = [p \in Procs |-> IF p = 2 THEN User_new(OtherTagUser, "g1") ELSE NoItem]
  /\ req = [p \in Procs |-> NoReq]
  /\ res = [p \in Procs |-> ""]
  /\ hist = << >>
  /\ nops = 0
  /\ QueryIdle

\* the other client saves its user once
Other_save == res[2] = "" /\ BaseEntity_save(2)

TagNext ==
  \/ UserRepository_generateUniqueClkkTag
  \/ UserRepository_generateUniqueClkkTag_reply
  \/ Other_save
  \/ BaseEntity_save_reply(2)

\* a call of generateUniqueClkkTag is in progress: a probe awaits its answer
Generate_pending == call.op = "generateUniqueClkkTag" /\ ~call.returned

\* Weak fairness of the answer to the probe in flight, written out as
\* []<>~ENABLED <<A>>_vars \/ []<><<A>>_vars for the reply action A, which is
\* enabled exactly while a call is pending: the engine answers every query.
Generate_fair ==
  \/ []<>(~Generate_pending)
  \/ []<><<Generate_pending /\ call' # call>>_vars

SpecTag ==
  /\ TagInit
  /\ [][TagNext]_vars
  /\ Generate_fair

ProbeAt(i) == call.requests[i]

AllTaken(n) == \A i \in 1..n : ProbeAt(i).answered /\ ProbeAt(i).exists

\* the state of a call is one the loop can be in
Generate_consistent ==
  LET n == Len(call.requests) IN
  /\ n >= 1 /\ n <= maxAttempts
  /\ AllTaken(n - 1)
  /\ \A i \in 1..n : \E random \in Randoms :
       ProbeAt(i).tag = generateClkkTag(call.input[1], call.input[2], random)
  /\ ~call.returned => ~ProbeAt(n).answered
  /\ (call.returned /\ call.error = "") =>
       /\ ProbeAt(n).answered /\ ~ProbeAt(n).exists
       /\ call.result = <<ProbeAt(n).tag>>
  /\ (call.returned /\ call.error # "") =>
       /\ n = maxAttempts /\ AllTaken(n)
       /\ call.result = << >>

\* C28: generateUniqueClkkTag ends after at most 10 probes; it returns a
\* candidate only when the probe of that candidate found no user, it draws
\* and probes a new candidate after every probe that found the tag taken,
\* and it fails with an error once 10 candidates in a row were taken.
C28_GenerateTagBounded ==
  /\ [](call.op = "generateUniqueClkkTag" => Generate_consistent)
  /\ Generate_pending ~> call.returned

\* ten candidates in a row were taken and the call has failed
C28_Witness ==
  /\ call.op = "generateUniqueClkkTag"
  /\ call.returned /\ call.error # ""
  /\ Len(call.requests) = maxAttempts
  /\ \E i, j \in 1..maxAttempts : ProbeAt(i).tag # ProbeAt(j).tag

----------------------------------------------------------------------------
(* Cancellation by the caller.  queryAllPages, countByIndex, batchGet and   *)
(* batchWrite take no signal and read no flag: the caller can only decide   *)
(* to cancel, which call records with the items collected until then.       *)

\* the caller cancels while queryAllPages is in flight
Caller_cancel ==
  /\ call = NoCall
  /\ allp.state = "looping"
  /\ call' = [NoCall EXCEPT !.op = "cancel", !.result = allp.allItems]
  /\ UNCHANGED storeVars /\ UNCHANGED <<idx, qry, pager, allp, cnt, tok, resolverCache, evt>>

CancelNext ==
  \/ BaseRepository_queryAllPages
  \/ BaseRepository_queryAllPages_page
  \/ Caller_cancel

SpecCancel == QueryInit /\ [][CancelNext]_vars

Cancelled == call.op = "cancel"

\* C29: once the caller has cancelled, queryAllPages sends no further page
\* request, and what it returns is the items collected up to the
\* cancellation.
C29_CancelStopsRequests ==
  [][Cancelled =>
       /\ ~(qry = NoQuery /\ qry' # NoQuery)
       /\ allp'.state = "done" => allp'.result = call.result]_vars

----------------------------------------------------------------------------
(* createCachedHandler: the result cache of the resolvers, one Map for all  *)
(* cached handlers of the process.  An invocation runs to its end before    *)
(* the next begins.  clock is Date.now().                                   *)

CACHE_TTL == 60000

\* resolverCache.size > 100
CleanupSize == 100

MaxTime == 2

\* options?.ttl of the handler invoked
TtlOptions == {Absent, Some(1)}

\* options?.ttl || CACHE_TTL
TtlOf(option) == IF option # Absent /\ option[1] # 0 THEN option[1] ELSE CACHE_TTL

\* the result of the wrapped handler for an event, run at a time
ResultOf(key, now) == <<key, now>>

WarmCache == [key \in 1..CleanupSize |-> [data |-> ResultOf(key, 0), timestamp |-> 0]]

\* the cache keys of the events: keys the cache holds, and one it does not
EventKeys == {1, 2, CleanupSize + 1, CleanupSize + 2}

\* the cache is empty, or holds what CleanupSize invocations with distinct
\* keys at time 0 have left in it
CacheInit ==
  /\ table = << >>
  /\ clock = 0
  /\ pc = [p \in Procs |-> "idle"]
  /\ ent = [p \in Procs |-> NoItem]
  /\ req = [p \in Procs |-> NoReq]
  /\ res = [p \in Procs |-> ""]
  /\ hist = << >>
  /\ nops = 0
  /\ idx = << >> /\ qry = << >> /\ pager = << >>
  /\ allp = << >> /\ cnt = << >> /\ tok = << >>
  /\ call = NoCall
  /\ resolverCache \in {<< >>, WarmCache}
  /\ evt = << >>

CacheFrame ==
  /\ nops < MaxOps
  /\ nops' = nops + 1
  /\ UNCHANGED <<table, pc, ent, req, res, hist, idx, qry, pager, allp, cnt, tok, evt>>

\* faulty variant: an entry exactly ttl old is still served
Fresh_inclusive(key, ttl, now) ==
  /\ key \in DOMAIN resolverCache
  /\ now - resolverCache[key].timestamp <= ttl

\* cached && Date.now() - cached.timestamp < ttl
Fresh(key, ttl, now) ==
  /\ key \in DOMAIN resolverCache
  /\ now - resolverCache[key].timestamp < ttl

\* cached && Date.now() - cached.timestamp < ttl: return cached.data
createCachedHandler_hit ==
  \E key \in EventKeys, option \in TtlOptions, now \in clock..MaxTime :
    /\ Fresh(key, TtlOf(option), now)
    /\ clock' = now
    /\ call' = [NoCall EXCEPT !.op = "cachedHandler",
                              !.input = <<key, TtlOf(option)>>,
                              !.result = <<resolverCache[key].data>>,
                              !.returned = TRUE]
    /\ UNCHANGED resolverCache
    /\ CacheFrame

\* the handler throws: nothing is cached
createCachedHandler_throw ==
  \E key \in EventKeys, option \in TtlOptions, now \in clock..MaxTime :
    /\ ~Fresh(key, TtlOf(option), now)
    /\ clock' = now
    /\ call' = [NoCall EXCEPT !.op = "cachedHandler",
                              !.input = <<key, TtlOf(option)>>,
                              !.requests = <<key>>, !.error = "Error",
                              !.returned = TRUE]
    /\ UNCHANGED resolverCache
    /\ CacheFrame

\* if (resolverCache.size > 100) delete the entries with now - timestamp > ttl
Cleanup(cache, ttl, now) ==
  IF Cardinality(DOMAIN cache) > CleanupSize
  THEN [key \in {j \in DOMAIN cache : ~(now - cache[j].timestamp > ttl)} |->
          cache[key]]
  ELSE cache

\* a miss: the handler runs, its result is stored under the key with the
\* time of the store, and the cleanup follows
createCachedHandler_miss ==
  \E key \in EventKeys, option \in TtlOptions, now \in clock..MaxTime :
    /\ ~Fresh(key, TtlOf(option), now)
    /\ \E stored \in now..MaxTime, cleaned \in now..MaxTime :
         /\ stored <= cleaned
         /\ clock' = cleaned
         /\ resolverCache' =
              Cleanup((key :> [data |-> ResultOf(key, now), timestamp |-> stored])
                        @@ resolverCache,
                      TtlOf(option), cleaned)
    /\ call' = [NoCall EXCEPT !.op = "cachedHandler",
                              !.input = <<key, TtlOf(option)>>,
                              !.requests = <<key>>,
                              !.result = <<ResultOf(key, now)>>,
                              !.returned = TRUE]
    /\ CacheFrame

CacheNext ==
  \/ createCachedHandler_hit
  \/ createCachedHandler_throw
  \/ createCachedHandler_miss

SpecCache == CacheInit /\ [][CacheNext]_vars

\* C30: the result cache never holds more entries than a fixed bound, the
\* size from which the code cleans up.
C30_CacheBounded == Cardinality(DOMAIN resolverCache) <= CleanupSize

----------------------------------------------------------------------------
(* Index keys of the stored user rows.  BaseEntity.update accepts any      *)
(* attribute name; here it is also called with the attributes the index    *)
(* keys are computed from.                                                  *)

\* updates objects that name an attribute User.toItem projects into a key
ProjectedUpdates ==
  { << [k |-> "email", def |-> TRUE, v |-> "New@Ex.io"] >>,
    << [k |-> "clkkTag", def |-> TRUE, v |-> "AnnLee0001"] >> }

\* user.update(updates) with one of these objects
User_update_projected(p) ==
  \E now \in Times :
  /\ Start(p, now) /\ ent[p] # NoItem /\ "id" \in DOMAIN ent[p]
  /\ \E updates \in ProjectedUpdates :
       Send(p, [BaseEntity_update_params(ent[p], updates, now) EXCEPT
                  !.ent0 = ent[p], !.now = now], ent[p])

IndexKeysNext ==
  \/ NewUser(1)
  \/ BaseEntity_create(1)
  \/ BaseEntity_create_reply(1)
  \/ BaseEntity_save(1)
  \/ BaseEntity_save_reply(1)
  \/ BaseEntity_update(1)
  \/ User_update_projected(1)
  \/ BaseEntity_update_reply(1)

SpecIndexKeys == Init /\ [][IndexKeysNext]_vars

\* the key attribute is the one the builder computes from the stored value
KeyFresh(row, attr, keyAttr, built) ==
  IF attr \in DOMAIN row
  THEN keyAttr \in DOMAIN row /\ row[keyAttr] = built
  ELSE keyAttr \notin DOMAIN row

IndexKeysFresh(row) ==
  /\ KeyFresh(row, "email", "EmailKey",
              "EMAIL#" \o toLowerCase(IF "email" \in DOMAIN row THEN row["email"] ELSE ""))
  /\ KeyFresh(row, "clerkId", "ExternalIdKey",
              "CLERK#" \o (IF "clerkId" \in DOMAIN row THEN row["clerkId"] ELSE ""))
  /\ KeyFresh(row, "clkkTag", "ClkkTagKey",
              "TAG#" \o toLowerCase(IF "clkkTag" \in DOMAIN row THEN row["clkkTag"] ELSE ""))

\* C31: after any sequence of create, save, update and updateKycStatus calls
\* every stored user row has EmailKey = "EMAIL#" + lower-cased email,
\* ExternalIdKey = "CLERK#" + clerkId, and ClkkTagKey = "TAG#" + lower-cased
\* clkkTag exactly when it has a clkkTag.
C31_IndexKeysFresh == \A k \in DOMAIN table : IndexKeysFresh(table[k])

----------------------------------------------------------------------------
(* The handlers of the users service: the Clerk webhook handlers and the   *)
(* GraphQL resolvers.  A handler runs as one of the processes; it takes a  *)
(* step at every await of an engine command, and the code between two      *)
(* awaits belongs to the step of the first.  evt[p] is the event or the    *)
(* arguments the handler of process p was invoked with.                    *)

\* the handler is entered: it reads the clock whenever it stamps
Enter(p, now) ==
  /\ pc[p] = "idle"
  /\ nops < MaxOps
  /\ nops' = nops + 1
  /\ now >= clock /\ now <= MaxClock
  /\ clock' = now
  /\ UNCHANGED <<idx, qry, pager, allp, cnt, tok, call, resolverCache>>

\* the handler goes on after an await
Resume(p, at, now) ==
  /\ pc[p] = at
  /\ now >= clock /\ now <= MaxClock
  /\ clock' = now
  /\ UNCHANGED <<nops, idx, qry, pager, allp, cnt, tok, call, resolverCache>>

\* the handler returns or throws without a further engine command
Return(p, outcome) ==
  /\ pc' = [pc EXCEPT ![p] = "idle"]
  /\ res' = [res EXCEPT ![p] = outcome]
  /\ UNCHANGED <<table, ent, req, hist>>

\* the handler awaits the next engine command at position at
Await(p, at, e) ==
  /\ pc' = [pc EXCEPT ![p] = at]
  /\ ent' = [ent EXCEPT ![p] = e]
  /\ UNCHANGED <<table, req, res, hist>>

\* queryByIndex with limit 1, then items[0] or null: what a getBy... of the
\* repository may return
GetBy(tbl, IndexName, value) ==
  LET part == IndexPartition(tbl, IndexName, value)
  IN IF part = {} THEN {NoItem} ELSE {User_fromItem(r) : r \in part}

getByClerkId(tbl, clerkId) ==
  GetBy(tbl, "ExternalIdIndex", KEY_BUILDERS_userByClerkId(clerkId)["ExternalIdKey"])

getByEmail(tbl, email) ==
  GetBy(tbl, "EmailIndex", KEY_BUILDERS_userByEmail(email)["EmailKey"])

\* str.trim()
RECURSIVE trim(_)
trim(str) ==
  IF str = "" THEN ""
  ELSE IF CharAt(str, 1) = " " THEN trim(SubSeq(str, 2, Len(str)))
  ELSE IF CharAt(str, Len(str)) = " " THEN trim(SubSeq(str, 1, Len(str) - 1))
  ELSE str

\* str.replace(/[^\w\s-]/g, '')
RECURSIVE StripNonWord(_)
StripNonWord(str) ==
  IF str = "" THEN ""
  ELSE (IF CharAt(str, 1) \in Letters \cup DigitChars \cup CharSet("_ -")
        THEN CharAt(str, 1) ELSE "") \o StripNonWord(SubSeq(str, 2, Len(str)))

sanitizeString(str) == StripNonWord(trim(str))

\* generateClkkTag of the common layer, random the number drawn
common_generateClkkTag(firstName, lastName, random) ==
  toLowerCase(sanitizeString(firstName)) \o toLowerCase(sanitizeString(lastName))
    \o padStart4(ToString(random))

\* the uuids generateUserId may draw for the users the handlers create
HandlerUuids == {"g1", "g2"}

\* email_addresses?.find(verification.status === 'verified')?.email_address;
\* "" stands for undefined (both are falsy)
RECURSIVE FirstVerified(_, _)
FirstVerified(addresses, i) ==
  IF i > Len(addresses) THEN ""
  ELSE IF addresses[i].status = "verified" THEN addresses[i].email_address
  ELSE FirstVerified(addresses, i + 1)

PrimaryEmail(data) ==
  IF "email_addresses" \in DOMAIN data THEN FirstVerified(data["email_addresses"], 1)
  ELSE ""

\* phone_numbers?.[0]?.phone_number
PrimaryPhone(data) ==
  IF "phone_numbers" \in DOMAIN data /\ Len(data["phone_numbers"]) > 0
  THEN data["phone_numbers"][1] ELSE ""

\* if (user.firstName && user.lastName) user.clkkTag = generateClkkTag(...)
WithClkkTag(user, random) ==
  IF Truthy(user, "firstName") /\ Truthy(user, "lastName")
  THEN Assign(user, Obj1("clkkTag",
                common_generateClkkTag(user["firstName"], user["lastName"], random)))
  ELSE user

\* await user.create() up to the send: validate, stamp, conditional put
CreateOf(p, user, now) ==
  IF ~User_validate(user)
  THEN Return(p, ValidationFailed)
  ELSE LET e == Stamp(user, now, now)
       IN Send(p, [BaseEntity_create_params(e) EXCEPT !.ent0 = user, !.now = now], e)

\* await user.save() up to the send: validate, stamp, unconditional put
SaveOf(p, user, now) ==
  IF ~User_validate(user)
  THEN Return(p, ValidationFailed)
  ELSE LET e == SaveStamp(user, now)
       IN Send(p, [BaseEntity_save_params(e) EXCEPT !.ent0 = user, !.now = now], e)

\* the user handleUserCreated builds from the event
CreatedUser(data, uuid, random) ==
  LET names == (IF "first_name" \in DOMAIN data
                THEN Obj1("firstName", data["first_name"]) ELSE << >>)
               @@ (IF "last_name" \in DOMAIN data
                   THEN Obj1("lastName", data["last_name"]) ELSE << >>)
      phone == IF PrimaryPhone(data) # "" THEN Obj1("phoneNumber", PrimaryPhone(data))
               ELSE << >>
  IN WithClkkTag(
       User_new(("id" :> ("user_" \o uuid)) @@ ("clerkId" :> data["id"])
                  @@ ("email" :> PrimaryEmail(data)) @@ names @@ phone, uuid),
       random)

\* handleUserCreated from its first await on
handleUserCreated_body(p, data, now) ==
  \E existingUser \in getByClerkId(table, data["id"]) :
    IF existingUser # NoItem THEN Return(p, "User already exists")
    ELSE IF PrimaryEmail(data) = ""
    THEN Return(p, "Error: No verified email address found")
    ELSE \E uuid \in HandlerUuids, random \in Randoms :
           CreateOf(p, CreatedUser(data, uuid, random), now)

\* the applied changes of handleUserUpdated: the user after them
UpdatedUser(user, data, random) ==
  LET a == IF PrimaryEmail(data) # "" /\ PrimaryEmail(data) # user["email"]
           THEN Assign(user, Obj1("email", PrimaryEmail(data))) ELSE user
      b == IF "first_name" \in DOMAIN data
              /\ ("firstName" \notin DOMAIN a \/ data["first_name"] # a["firstName"])
           THEN Assign(a, Obj1("firstName", data["first_name"])) ELSE a
      c == IF "last_name" \in DOMAIN data
              /\ ("lastName" \notin DOMAIN b \/ data["last_name"] # b["lastName"])
           THEN Assign(b, Obj1("lastName", data["last_name"])) ELSE b
      d == IF PrimaryPhone(data) # ""
              /\ ("phoneNumber" \notin DOMAIN c \/ PrimaryPhone(data) # c["phoneNumber"])
           THEN Assign(c, Obj1("phoneNumber", PrimaryPhone(data))) ELSE c
  IN IF ~Truthy(d, "clkkTag") THEN WithClkkTag(d, random) ELSE d

\* faulty variant: a primary email counts as a change whether or not it
\* differs from the stored one
hasChanges_anyEmail(user, data) ==
  \/ PrimaryEmail(data) # ""
  \/ "first_name" \in DOMAIN data
       /\ ("firstName" \notin DOMAIN user \/ data["first_name"] # user["firstName"])
  \/ "last_name" \in DOMAIN data
       /\ ("lastName" \notin DOMAIN user \/ data["last_name"] # user["lastName"])
  \/ PrimaryPhone(data) # ""
       /\ ("phoneNumber" \notin DOMAIN user \/ PrimaryPhone(data) # user["phoneNumber"])
  \/ \E random \in Randoms :
       /\ ~Truthy(user, "clkkTag")
       /\ Truthy(UpdatedUser(user, data, random), "clkkTag")

\* hasChanges of handleUserUpdated: some comparison found a difference, or
\* a tag was generated
hasChanges(user, data) ==
  \/ PrimaryEmail(data) # "" /\ PrimaryEmail(data) # user["email"]
  \/ "first_name" \in DOMAIN data
       /\ ("firstName" \notin DOMAIN user \/ data["first_name"] # user["firstName"])
  \/ "last_name" \in DOMAIN data
       /\ ("lastName" \notin DOMAIN user \/ data["last_name"] # user["lastName"])
  \/ PrimaryPhone(data) # ""
       /\ ("phoneNumber" \notin DOMAIN user \/ PrimaryPhone(data) # user["phoneNumber"])
  \/ \E random \in Randoms :
       /\ ~Truthy(user, "clkkTag")
       /\ Truthy(UpdatedUser(user, data, random), "clkkTag")

\* the events Clerk delivers
ClerkEvents ==
  { [type |-> "user.created",
     data |-> ("id" :> "c1") @@
              ("email_addresses" :>
                 << [email_address |-> "Ann@Ex.io", status |-> "verified"] >>)],
    [type |-> "user.created",
     data |-> ("id" :> "c2") @@
              ("email_addresses" :>
                 << [email_address |-> "old@ex.io", status |-> "unverified"],
                    [email_address |-> "ann@ex.io", status |-> "verified"] >>)],
    [type |-> "user.created",
     data |-> ("id" :> "c3") @@ ("email_addresses" :> << >>)],
    [type |-> "user.updated",
     data |-> ("id" :> "c1") @@
              ("email_addresses" :>
                 << [email_address |-> "Ann@Ex.io", status |-> "verified"] >>)],
    [type |-> "user.updated",
     data |-> ("id" :> "c1") @@
              ("email_addresses" :>
                 << [email_address |-> "bob@ex.io", status |-> "verified"] >>)
              @@ ("first_name" :> "Ann") @@ ("last_name" :> "Lee")],
    [type |-> "user.updated",
     data |-> ("id" :> "c2") @@
              ("email_addresses" :>
                 << [email_address |-> "bob@ex.io", status |-> "verified"] >>)],
    [type |-> "user.updated",
     data |-> ("id" :> "c1") @@ ("first_name" :> "Alexander")
              @@ ("last_name" :> "Montgomery")],
    [type |-> "user.updated",
     data |-> ("id" :> "c3") @@ ("first_name" :> "Cy")] }

EventsOf(type) == {e.data : e \in {f \in ClerkEvents : f.type = type}}

WebhookHandler_handleUserCreated(p) ==
  \E now \in Times, data \in EventsOf("user.created") :
    /\ Enter(p, now)
    /\ evt' = [evt EXCEPT ![p] = data]
    /\ handleUserCreated_body(p, data, now)

\* no user has the Clerk id: the handler goes on in handleUserCreated
WebhookHandler_handleUserUpdated(p) ==
  \E now \in Times, data \in EventsOf("user.updated") :
    /\ Enter(p, now)
    /\ evt' = [evt EXCEPT ![p] = data]
    /\ \E user \in getByClerkId(table, data["id"]) :
         IF user = NoItem THEN Await(p, "handleUserCreated", ent[p])
         ELSE \E random \in Randoms :
                IF hasChanges(user, data)
                THEN SaveOf(p, UpdatedUser(user, data, random), now)
                ELSE Return(p, "No changes detected")

WebhookHandler_handleUserUpdated_create(p) ==
  \E now \in Times :
    /\ Resume(p, "handleUserCreated", now)
    /\ UNCHANGED evt
    /\ handleUserCreated_body(p, evt[p], now)

\* the inputs of the createUser mutation
CreateUserInputs ==
  { ("clerkId" :> "c1") @@ ("email" :> "Ann@Ex.io"),
    ("clerkId" :> "c2") @@ ("email" :> "ann@ex.io")
      @@ ("firstName" :> "Ann") @@ ("lastName" :> "Lee"),
    ("clerkId" :> "c2") @@ ("email" :> "bob@ex.io") }

\* User.fromGraphQLInput(input)
User_fromGraphQLInput(input, uuid, random) ==
  WithClkkTag(
    User_new(Only(input, {"clerkId", "email"})
               @@ [k \in {f \in {"phoneNumber", "firstName", "lastName"} :
                            Truthy(input, f)} |-> input[k]], uuid),
    random)

\* createUser up to its second await
UserResolver_createUser(p) ==
  \E now \in Times, input \in CreateUserInputs :
    /\ Enter(p, now)
    /\ evt' = [evt EXCEPT ![p] = input]
    /\ \E existingUser \in getByClerkId(table, input["clerkId"]) :
         IF existingUser # NoItem THEN Return(p, "USER_EXISTS")
         ELSE Await(p, "getByEmail", ent[p])

\* createUser from its second await on
UserResolver_createUser_email(p) ==
  \E now \in Times :
    /\ Resume(p, "getByEmail", now)
    /\ UNCHANGED evt
    /\ \E existingEmail \in getByEmail(table, evt[p]["email"]) :
         IF existingEmail # NoItem THEN Return(p, "EMAIL_EXISTS")
         ELSE \E uuid \in HandlerUuids, random \in Randoms :
                CreateOf(p, User_fromGraphQLInput(evt[p], uuid, random), now)

HandlerInit ==
  /\ table \in {<< >>, SeededTable}
  /\ clock = 0
  /\ pc = [p \in Procs |-> "idle"]
  /\ ent = [p \in Procs |-> NoItem]
  /\ req = [p \in Procs |-> NoReq]
  /\ res = [p \in Procs |-> ""]
  /\ hist = << >>
  /\ nops = 0
  /\ idx = << >> /\ qry = << >> /\ pager = << >>
  /\ allp = << >> /\ cnt = << >> /\ tok = << >>
  /\ call = NoCall
  /\ resolverCache = << >>
  /\ evt = [p \in Procs |-> NoItem]

SignUpNext ==
  \E p \in Procs :
    \/ UserResolver_createUser(p)
    \/ UserResolver_createUser_email(p)
    \/ WebhookHandler_handleUserCreated(p)
    \/ WebhookHandler_handleUserUpdated(p)
    \/ WebhookHandler_handleUserUpdated_create(p)
    \/ BaseEntity_create_reply(p)
    \/ BaseEntity_save_reply(p)

SpecSignUp == HandlerInit /\ [][SignUpNext]_vars

\* C32: in every interleaving of createUser calls and user.created /
\* user.updated webhook handlers, no two stored rows share a Clerk
\* external-id key or a canonical email key.
C32_ExternalIdAndEmailUnique ==
  \A k1, k2 \in DOMAIN table :
    k1 # k2 =>
      /\ table[k1]["ExternalIdKey"] # table[k2]["ExternalIdKey"]
      /\ table[k1]["EmailKey"] # table[k2]["EmailKey"]

----------------------------------------------------------------------------
(* Two clients update one stored row at the same time.                     *)

\* both clients have loaded the stored user
TwoUpdatersInit ==
  /\ table = SeededTable
  /\ clock = 0
  /\ pc = [p \in Procs |-> "idle"]
  /\ ent = [p \in Procs |-> User_fromItem(table[CHOOSE k \in DOMAIN table : TRUE])]
  /\ req = [p \in Procs |-> NoReq]
  /\ res = [p \in Procs |-> ""]
  /\ hist = << >>
  /\ nops = 0
  /\ QueryIdle

\* each client updates once
Updater_update(p) == res[p] = "" /\ BaseEntity_update(p)

TwoUpdatersNext ==
  \E p \in Procs :
    \/ Updater_update(p)
    \/ BaseEntity_update_reply(p)

SpecTwoUpdaters == TwoUpdatersInit /\ [][TwoUpdatersNext]_vars

----------------------------------------------------------------------------
(* Soft deletion by the user.deleted webhook, and the handlers that write  *)
(* the same row.                                                            *)

\* user.metadata = {...user.metadata, deletedAt, deletedBy: 'clerk_webhook'}
MarkDeleted(user, now) ==
  Assign(user,
         Obj1("metadata",
              Assign(IF "metadata" \in DOMAIN user THEN user["metadata"] ELSE << >>,
                     ("deletedAt" :> now) @@ ("deletedBy" :> "clerk_webhook"))))

WebhookHandler_handleUserDeleted(p) ==
  \E now \in Times, clerkId \in {"c1", "c9"} :
    /\ Enter(p, now)
    /\ evt' = [evt EXCEPT ![p] = Obj1("id", clerkId)]
    /\ \E user \in getByClerkId(table, clerkId) :
         IF user = NoItem THEN Return(p, "User not found")
         ELSE SaveOf(p, MarkDeleted(user, now), now)

\* user.applyUpdates(input): "" stands for every falsy value given
User_applyUpdates(user, input, random) ==
  LET fields == {"firstName", "lastName", "phoneNumber", "profileImageUrl",
                 "dateOfBirth", "address"} \cap DOMAIN input
      cleared == {f \in fields : input[f] = ""}
      after == Assign(Without(user, cleared), Only(input, fields \ cleared))
  IN IF ~Truthy(after, "clkkTag") THEN WithClkkTag(after, random) ELSE after

\* the identity of the caller: none (an API key or IAM caller has no claims),
\* the stored user's Clerk id, another Clerk id
NoIdentity == << >>
Identities ==
  { NoIdentity, Obj1("claims", Obj1("sub", "c1")), Obj1("claims", Obj1("sub", "c9")) }

\* identity && 'claims' in identity ? identity.claims?.sub : undefined;
\* "" stands for undefined (both are falsy)
callerUserId(identity) ==
  IF "claims" \in DOMAIN identity /\ "sub" \in DOMAIN identity["claims"]
  THEN identity["claims"]["sub"] ELSE ""

\* the arguments of the updateUser mutation
UpdateUserArgs ==
  { [id |-> id, input |-> input, identity |-> identity] :
      id \in {"u1", "u9"},
      input \in { Obj1("firstName", "Al"),
                  ("firstName" :> "Ann") @@ ("lastName" :> "Lee") },
      identity \in Identities }

UserResolver_updateUser(p) ==
  \E now \in Times, args \in UpdateUserArgs :
    /\ Enter(p, now)
    /\ evt' = [evt EXCEPT ![p] = args]
    /\ LET item == DynamoGet(table, KEY_BUILDERS_user(args.id)).Attributes
           user == User_fromItem(item)
       IN IF item = NoItem THEN Return(p, "USER_NOT_FOUND")
          ELSE IF callerUserId(args.identity) # ""
                  /\ callerUserId(args.identity) # user["clerkId"]
          THEN Return(p, "UNAUTHORIZED")
          ELSE \E random \in Randoms :
                 SaveOf(p, User_applyUpdates(user, args.input, random), now)

\* a client loads the user and calls user.updateKycStatus(status)
User_updateKycStatus(p) ==
  \E now \in Times, status \in {"APPROVED"} :
    /\ Enter(p, now)
    /\ evt' = [evt EXCEPT ![p] = Obj1("status", status)]
    /\ LET item == DynamoGet(table, KEY_BUILDERS_user("u1")).Attributes
           user == Assign(User_fromItem(item), Obj1("kycStatus", status))
           updates == << [k |-> "kycStatus", def |-> TRUE, v |-> status],
                         [k |-> "kycDetails", def |-> "kycDetails" \in DOMAIN user,
                          v |-> IF "kycDetails" \in DOMAIN user
                                THEN user["kycDetails"] ELSE ""] >>
       IN IF item = NoItem THEN Return(p, "USER_NOT_FOUND")
          ELSE Send(p, [BaseEntity_update_params(user, updates, now) EXCEPT
                          !.ent0 = user, !.now = now], user)

SoftDeleteNext ==
  \E p \in Procs :
    \/ WebhookHandler_handleUserDeleted(p)
    \/ WebhookHandler_handleUserUpdated(p)
    \/ WebhookHandler_handleUserUpdated_create(p)
    \/ UserResolver_updateUser(p)
    \/ User_updateKycStatus(p)
    \/ BaseEntity_create_reply(p)
    \/ BaseEntity_save_reply(p)
    \/ BaseEntity_update_reply(p)

SpecSoftDelete == HandlerInit /\ [][SoftDeleteNext]_vars

\* the row carries the soft-delete marker
SoftDeleted(row) == "metadata" \in DOMAIN row /\ "deletedAt" \in DOMAIN row["metadata"]

\* C34: once the user.deleted webhook has written metadata.deletedAt, the
\* row and its marker stay in every later state, whatever the interleaving
\* with user.updated webhooks, updateUser and updateKycStatus.
C34_SoftDeleteSticks ==
  [][\A k \in DOMAIN table :
       SoftDeleted(table[k]) => (k \in DOMAIN table' /\ SoftDeleted(table'[k]))]_vars

----------------------------------------------------------------------------
(* The user.updated webhook on its own.                                    *)

UserUpdatedNext ==
  \/ WebhookHandler_handleUserUpdated(1)
  \/ WebhookHandler_handleUserUpdated_create(1)
  \/ BaseEntity_create_reply(1)
  \/ BaseEntity_save_reply(1)

SpecUserUpdated == HandlerInit /\ [][UserUpdatedNext]_vars

\* the webhook changes email, firstName, lastName or phoneNumber of the
\* loaded user, or the user gets the tag it lacked
Differs(user, data) ==
  \E random \in Randoms :
    LET fields == {"email", "firstName", "lastName", "phoneNumber", "clkkTag"}
    IN Only(UpdatedUser(user, data, random), fields) # Only(user, fields)

\* the handler is entered in this step
Entered(p) == pc[p] = "idle" /\ nops' = nops + 1

\* the handler issues a write in this step
Writes(p) == pc'[p] = "sent"

----------------------------------------------------------------------------
(* The AppSync Lambda authorizer.  An invocation is one step: the token    *)
(* is examined, the webhook secret or the user row is read, and the        *)
(* result is returned.  evt[1] is the invocation: the token and what the   *)
(* secrets manager and the table answer.                                   *)

\* str.startsWith(prefix)
startsWith(str, prefix) ==
  Len(str) >= Len(prefix) /\ SubSeq(str, 1, Len(prefix)) = prefix

\* str.split(':')
split(str) ==
  LET colons == {i \in 1..Len(str) : CharAt(str, i) = ":"}
      n == Cardinality(colons)
      pos(j) == CHOOSE i \in colons : Cardinality({k \in colons : k < i}) = j - 1
  IN [j \in 1..(n + 1) |->
        SubSeq(str, IF j = 1 THEN 1 ELSE pos(j - 1) + 1,
                    IF j = n + 1 THEN Len(str) ELSE pos(j) - 1)]

\* createHmac('sha256', secret).update(payload).digest('hex'): the digest
\* is taken to be free of collisions, distinct keys and messages give
\* distinct digests; it is written as a word over the base64 letters
hmacSha256(secret, payload) ==
  Base64Encode(Utf8Bytes(secret)) \o "." \o Base64Encode(Utf8Bytes(payload))

\* the secret getWebhookSecret returns: JSON.parse(SecretString || '{}').secret
\* [error, secret]; secret Absent stands for undefined
getWebhookSecret(answer) ==
  IF answer.fault THEN [error |-> "SecretsManagerError", secret |-> Absent]
  ELSE LET parsed == JSON_parse(IF answer.SecretString = Absent
                                  \/ answer.SecretString[1] = ""
                                THEN "{}" ELSE answer.SecretString[1])
       IN IF parsed.error # "" THEN [error |-> parsed.error, secret |-> Absent]
          ELSE IF "secret" \in DOMAIN ObjOf(parsed.value)
          THEN [error |-> "", secret |-> Some(ObjOf(parsed.value)["secret"])]
          ELSE [error |-> "", secret |-> Absent]

\* verifyClerkWebhook(payload, signature): [error, isValid]; createHmac
\* throws on a key that is undefined
verifyClerkWebhook(payload, signature, answer) ==
  LET s == getWebhookSecret(answer)
  IN IF s.error # "" THEN [error |-> s.error, isValid |-> FALSE]
     ELSE IF s.secret = Absent THEN [error |-> "TypeError", isValid |-> FALSE]
     ELSE [error |-> "",
           isValid |-> signature = "sha256=" \o hmacSha256(s.secret[1], payload)]

\* the webhook branch: [isAuthorized, error]; the error is caught
Authorizer_webhook(authToken, answer) ==
  LET parts == split(authToken)
      signature == IF Len(parts) >= 2 THEN parts[2] ELSE ""
      payload == IF Len(parts) >= 3 THEN parts[3] ELSE ""
      decodedPayload == Utf8Text(Base64Decode(payload))
      verified == verifyClerkWebhook(decodedPayload, signature, answer)
  IN IF signature = "" \/ payload = "" THEN [isAuthorized |-> FALSE, error |-> ""]
     ELSE IF verified.error # "" THEN [isAuthorized |-> FALSE, error |-> verified.error]
     ELSE IF ~verified.isValid THEN [isAuthorized |-> FALSE, error |-> ""]
     ELSE IF JSON_parse(decodedPayload).error # ""
     THEN [isAuthorized |-> FALSE, error |-> JSON_parse(decodedPayload).error]
     ELSE [isAuthorized |-> TRUE, error |-> ""]

\* the Clerk branch: the row at KEY_BUILDERS.user of the rest of the token
Authorizer_clerk(authToken, tbl, getFault) ==
  LET clerkId == SubSeq(authToken, Len("clerk:") + 1, Len(authToken))
  IN IF getFault THEN [isAuthorized |-> FALSE, error |-> "DynamoDBError"]
     ELSE [isAuthorized |-> DynamoGet(tbl, KEY_BUILDERS_user(clerkId)).Attributes # NoItem,
           error |-> ""]

\* faulty variant: an error while checking lets the request through
Authorizer_result_open(invocation, tbl) ==
  LET authToken == invocation.authorizationToken
      r == IF authToken = Absent \/ authToken[1] = ""
           THEN [isAuthorized |-> FALSE, error |-> ""]
           ELSE IF startsWith(authToken[1], "webhook:")
           THEN Authorizer_webhook(authToken[1], invocation.secret)
           ELSE IF startsWith(authToken[1], "clerk:")
           THEN Authorizer_clerk(authToken[1], tbl, invocation.getFault)
           ELSE [isAuthorized |-> FALSE, error |-> ""]
  IN [r EXCEPT !.isAuthorized = r.isAuthorized \/ r.error # ""]

\* handler(event): [isAuthorized, error]
Authorizer_result(invocation, tbl) ==
  LET authToken == invocation.authorizationToken
  IN IF authToken = Absent \/ authToken[1] = ""
     THEN [isAuthorized |-> FALSE, error |-> ""]
     ELSE IF startsWith(authToken[1], "webhook:")
     THEN Authorizer_webhook(authToken[1], invocation.secret)
     ELSE IF startsWith(authToken[1], "clerk:")
     THEN Authorizer_clerk(authToken[1], tbl, invocation.getFault)
     ELSE [isAuthorized |-> FALSE, error |-> ""]

\* the secret Clerk signs with, and another
WebhookSecret == "whsec"
OtherSecret == "guess"

\* the payloads signed: two webhook bodies and a text that is no JSON
PayloadTexts == { "{\"type\":\"user.created\"}", "{\"type\":\"user.deleted\"}", "hello" }

\* the token of a payload signed with a secret
WebhookToken(secret, signed, sent) ==
  "webhook:sha256=" \o hmacSha256(secret, signed) \o ":" \o Base64Encode(Utf8Bytes(sent))

\* signed with the webhook secret, signed with another secret, and a
\* signature taken from one payload put on another
SignedTokens == {WebhookToken(WebhookSecret, t, t) : t \in PayloadTexts}
ForgedTokens ==
  {WebhookToken(OtherSecret, t, t) : t \in PayloadTexts}
    \cup {WebhookToken(WebhookSecret, "{\"type\":\"user.created\"}",
                       "{\"type\":\"user.deleted\"}")}

AuthorizationTokens ==
  {Absent, Some(""), Some("Bearer abc"), Some("webhook"), Some("webhook:"),
   Some("webhook:sha256=abc"), Some("webhook::e30="), Some("clerk:"),
   Some("clerk:u1"), Some("clerk:u9"), Some("Clerk:u1")}
    \cup {Some(t) : t \in SignedTokens \cup ForgedTokens}

\* what the secrets manager answers
SecretAnswers ==
  { [fault |-> FALSE, SecretString |-> Some("{\"secret\":\"whsec\"}")],
    [fault |-> FALSE, SecretString |-> Some("{\"value\":\"whsec\"}")],
    [fault |-> FALSE, SecretString |-> Some("whsec")],
    [fault |-> FALSE, SecretString |-> Absent],
    [fault |-> TRUE, SecretString |-> Absent] }

Authorizer_handler ==
  /\ nops < MaxOps
  /\ nops' = nops + 1
  /\ \E token \in AuthorizationTokens, answer \in SecretAnswers, getFault \in BOOLEAN :
       LET invocation == [authorizationToken |-> token, secret |-> answer,
                          getFault |-> getFault]
           r == Authorizer_result(invocation, table)
       IN /\ evt' = [evt EXCEPT ![1] = invocation]
          /\ call' = [NoCall EXCEPT !.op = "authorizer", !.input = <<token>>,
                                    !.result = <<r.isAuthorized>>,
                                    !.error = r.error, !.returned = TRUE]
  /\ UNCHANGED <<table, clock, pc, ent, req, res, hist, idx, qry, pager, allp, cnt, tok,
                 resolverCache>>

SpecAuthorizer == HandlerInit /\ [][Authorizer_handler]_vars

\* the token is a payload signed with the secret the secrets manager holds
SignedWithSecret(invocation) ==
  /\ invocation.authorizationToken # Absent
  /\ getWebhookSecret(invocation.secret).secret # Absent
  /\ \E text \in PayloadTexts :
       invocation.authorizationToken[1] =
         WebhookToken(getWebhookSecret(invocation.secret).secret[1], text, text)

\* the token names a user whose row is in the table
NamesStoredUser(invocation) ==
  /\ invocation.authorizationToken # Absent
  /\ \E k \in DOMAIN table :
       invocation.authorizationToken[1] = "clerk:" \o table[k]["id"]

\* C36: the authorizer fails closed: it answers isAuthorized = true only for
\* a "webhook:" token whose signature is the HMAC-SHA256 of the decoded
\* payload under the webhook secret or for a "clerk:" token whose user row
\* exists; a missing token, an unknown format, a malformed webhook token and
\* every error raised while checking give isAuthorized = false.
C36_AuthorizerFailsClosed ==
  call.op = "authorizer" =>
    LET token == evt[1].authorizationToken
        isAuthorized == call.result[1]
    IN /\ isAuthorized => (SignedWithSecret(evt[1]) \/ NamesStoredUser(evt[1]))
       /\ call.error # "" => ~isAuthorized
       /\ (token = Absent \/ token[1] = "") => ~isAuthorized
       /\ (token # Absent /\ ~startsWith(token[1], "webhook:")
             /\ ~startsWith(token[1], "clerk:")) => ~isAuthorized
       /\ (token # Absent /\ startsWith(token[1], "webhook:")
             /\ Len(split(token[1])) < 3) => ~isAuthorized

\* a signed webhook has been let through, while the table read of this
\* invocation would have failed
C36_Witness ==
  /\ call.op = "authorizer" /\ call.result = <<TRUE>>
  /\ SignedWithSecret(evt[1]) /\ evt[1].getFault

----------------------------------------------------------------------------
(* The updateUser mutation on its own.                                     *)

UpdateUserNext ==
  \/ UserResolver_updateUser(1)
  \/ BaseEntity_save_reply(1)

SpecUpdateUser == HandlerInit /\ [][UpdateUserNext]_vars

\* C37: updateUser changes a row only when the caller is that user: when
\* the subject of the caller's identity is absent or differs from the
\* user's clerkId no write is issued and the call fails with UNAUTHORIZED;
\* a call for an id without a row fails with USER_NOT_FOUND without writing.
C37_OnlyOwnerUpdates ==
  [][Entered(1) =>
       LET args == evt'[1]
           item == Stored(table, KeyOf(KEY_BUILDERS_user(args.id)))
       IN /\ table' = table
          /\ item = NoItem => (~Writes(1) /\ res'[1] = "USER_NOT_FOUND")
          /\ (item # NoItem /\ callerUserId(args.identity) # item["clerkId"])
               => (~Writes(1) /\ res'[1] = "UNAUTHORIZED")]_vars

----------------------------------------------------------------------------
(* UserRepository.createMany: validate every user, then batchWrite.        *)

\* the lists handed to createMany: empty, valid, and with one user whose
\* email is no email, last or first in the list
CreateManyInputs ==
  LET user(id) == User_new(CHOOSE d \in UserInputs :
                              d["id"] = id /\ "firstName" \notin DOMAIN d, "g1")
      other == User_new(("id" :> "u3") @@ ("clerkId" :> "c4")
                          @@ ("email" :> "cyd@ex.io"), "g1")
  IN { << >>, << user("u1") >>, << other, user("u1") >>,
       << other, user("u2") >>, << user("u2"), other >> }

\* faulty variant: only the first user is validated before the write
AllValid_first(users) == User_validate(users[1])

\* for (const user of users) user.validate(): TRUE when none throws
AllValid(users) == \A i \in 1..Len(users) : User_validate(users[i])

UserRepository_createMany(p) ==
  \E users \in CreateManyInputs :
    IF Len(users) > 0 /\ AllValid(users)
    THEN BatchWriteOf(p, users)
    ELSE /\ pc[p] = "idle"
         /\ nops < MaxOps
         /\ nops' = nops + 1
         /\ call' = [NoCall EXCEPT
                       !.op = "createMany", !.input = users,
                       !.error = IF Len(users) = 0 THEN "" ELSE ValidationFailed,
                       !.returned = TRUE]
         /\ res' = [res EXCEPT ![p] = IF Len(users) = 0 THEN Ok ELSE ValidationFailed]
         /\ UNCHANGED <<table, clock, pc, ent, req, hist, idx, qry, pager, allp, cnt,
                        tok, resolverCache, evt>>

CreateManyNext ==
  \/ UserRepository_createMany(1)
  \/ Dynamo_batchWriteItem(1)
  \/ BaseRepository_batchWrite_reply(1)

SpecCreateMany == HandlerInit /\ [][CreateManyNext]_vars

\* the list holds a user that fails validation
SomeInvalid(users) == \E i \in 1..Len(users) : ~User_validate(users[i])

\* C38: createMany validates every user before it writes any: a list with
\* a user that fails validation issues no engine request and leaves the
\* store unchanged, and an empty list issues no request at all.
C38_ValidateAllBeforeWrite ==
  [][/\ (nops' = nops + 1 /\ (call'.input = << >> \/ SomeInvalid(call'.input)))
          => /\ call'.requests = << >>
             /\ table' = table
             /\ pc'[1] = "idle" /\ call'.returned
             /\ res'[1] = IF call'.input = << >> THEN Ok ELSE ValidationFailed
     /\ (nops' = nops + 1 /\ call'.requests # << >>) => ~SomeInvalid(call'.input)
     /\ table' # table => ~SomeInvalid(call.input)]_vars

\* a list whose second user is invalid has been refused after an earlier
\* list was written
C38_Witness ==
  /\ call.op = "createMany" /\ call.error = ValidationFailed
  /\ Len(call.input) = 2
  /\ User_validate(call.input[1]) /\ ~User_validate(call.input[2])
  /\ Len(hist) > 0 /\ Last.op = "batchWrite" /\ Last.outcome = Ok

----------------------------------------------------------------------------
(* What a cached handler serves and stores.                                *)

\* the invocation of this step: its cache key, its ttl, whether the wrapped
\* handler ran and whether it failed
Invoked == nops' = nops + 1 /\ call'.op = "cachedHandler"
HandlerRan == call'.requests # << >>
HandlerFailed == call'.error # ""

\* a result is served from the cache only when the entry of the key was
\* stored less than ttl ago, and then the cache is left alone
ServedOnlyFresh ==
  (Invoked /\ ~HandlerRan) =>
    LET key == call'.input[1]
    IN /\ key \in DOMAIN resolverCache
       /\ clock' - resolverCache[key].timestamp < call'.input[2]
       /\ call'.result = <<resolverCache[key].data>>
       /\ resolverCache' = resolverCache

\* the wrapped handler runs only when no such entry was there at the check
RunsOnlyStale ==
  (Invoked /\ HandlerRan) =>
    LET key == call'.input[1]
    IN \/ key \notin DOMAIN resolverCache
       \/ clock' - resolverCache[key].timestamp >= call'.input[2]

\* a failed invocation stores nothing and returns no result
FailureStoresNothing ==
  (Invoked /\ HandlerRan /\ HandlerFailed) =>
    (resolverCache' = resolverCache /\ call'.result = << >>)

\* the entry of the key is the new result with the time it was stored
NewEntry(key) ==
  /\ key \in DOMAIN resolverCache'
  /\ resolverCache'[key].data = call'.result[1]
  /\ resolverCache'[key].timestamp \in clock..clock'

\* C39 (as claimed): a cached handler returns a cached result only when an
\* entry of the same key was stored less than ttl ago; otherwise it runs
\* the wrapped handler and replaces the entry with the new result and time;
\* a failed invocation stores nothing.
C39_CacheServesFreshOnly ==
  [][/\ ServedOnlyFresh
     /\ RunsOnlyStale
     /\ FailureStoresNothing
     /\ (Invoked /\ HandlerRan /\ ~HandlerFailed) => NewEntry(call'.input[1])]_vars

\* C39 (amended): as claimed, except that the entry stored by a run is
\* subject to the cleanup that follows it: when the cache then holds more
\* than CleanupSize entries and more than ttl has passed since the entry
\* was stored, the cleanup removes it again.  No older entry of the key
\* survives a run.
C39_CacheServesFreshOrReruns ==
  [][/\ ServedOnlyFresh
     /\ RunsOnlyStale
     /\ FailureStoresNothing
     /\ (Invoked /\ HandlerRan /\ ~HandlerFailed) =>
          LET key == call'.input[1]
          IN \/ NewEntry(key)
             \/ /\ key \notin DOMAIN resolverCache'
                /\ Cardinality(DOMAIN resolverCache \cup {key}) > CleanupSize
                /\ clock' - clock > call'.input[2]]_vars

\* a result stored by a run in this behaviour has been served from the
\* cache
C39_Witness ==
  /\ call.op = "cachedHandler" /\ call.requests = << >>
  /\ call.input[1] \in DOMAIN resolverCache
  /\ call.result = <<resolverCache[call.input[1]].data>>
  /\ resolverCache[call.input[1]].timestamp > 0

====
